---- MODULE Spec2Model ----
(***************************************************************************)
(* Model of the GNC meta-framework core: the StateManager (component       *)
(* registry, dependency graph, priority-aware topological sort, lifecycle  *)
(* driver) and the type-erased state store behind IStateAccess.            *)
(***************************************************************************)
EXTENDS Integers, Sequences, FiniteSets, TLC

\* ------------------------------------------------------------------ bounds
MaxSteps == 2      \* number of updateAll steps explored
MaxDeps == 2       \* number of required inputs one component may declare
MaxPathLen == 5     \* longest path string handed to get<T>(path)
MaxRows == 3        \* rows one HDF5Writer is driven to write
MaxStates == 2      \* longest state list handed to an HDF5Writer
MaxFrames == 11     \* largest number of TimingManager updates
MaxDuration == 3    \* largest configured core.timing.duration_s, in ticks
MaxTimeStep == 2    \* largest configured core.timing.time_step_s, in ticks
MaxCycles == 2      \* largest sustainedFor(n) given to a FlowController transition
MaxVal == 1        \* largest value passed to a direct setState call

\* ------------------------------------------------------- program constants
DEFAULT_PRIORITY == 500

\* ------------------------------------------------------- component fixtures
\* ComponentId{vehicleId, name}
A1 == [vehicleId |-> 1, name |-> "A"]
B1 == [vehicleId |-> 1, name |-> "B"]
A2 == [vehicleId |-> 2, name |-> "A"]
NullComponent == [vehicleId |-> 0, name |-> ""]

Ids == {A1, B1, A2}
Priorities == {DEFAULT_PRIORITY, 1000}
Types == {"int", "dbl"}
StateNames == {"x", "y"}
Values == 0..MaxVal

\* StateId{component, name}
StateId(c, n) == [component |-> c, name |-> n]
StateIds == {StateId(c, n) : c \in Ids, n \in StateNames}
NoStateId == StateId(NullComponent, "")

\* std::any: a value together with the type it holds; an empty any has type void
MakeAny(t, v) == [type |-> t, val |-> v]
EmptyAny == MakeAny("void", 0)

\* declareOutput<T>(name, default): the one output each fixture component declares
OutputSpec(c) ==
    CASE c = A1 -> [name |-> "x", type |-> "int", default_value |-> EmptyAny]
      [] c = B1 -> [name |-> "y", type |-> "dbl", default_value |-> MakeAny("dbl", 0)]
      [] c = A2 -> [name |-> "x", type |-> "int", default_value |-> MakeAny("int", 0)]

\* ComponentBase::getInterface().getOutputs()
getOutputs(c) == {OutputSpec(c)}

\* std::string operator> on the component names in use
NameRank(n) == CASE n = "A" -> 1 [] n = "B" -> 2 [] OTHER -> 0
NameGreater(a, b) == NameRank(a) > NameRank(b)

\* ------------------------------------------------------------------- state
VARIABLES
    components_,              \* keys of the registry map
    states_,                  \* StateId -> std::any
    executionOrder_,          \* vector<ComponentId>
    componentDependencies_,   \* ComponentId -> set of ComponentId
    componentPriorities_,     \* ComponentId -> int
    stateSpecs_,              \* per registered component object: its input StateSpecs
    needsRevalidation_,       \* dirty flag
    initCount,                \* per component: number of initialize() calls received
    stepCount,                \* number of updateAll calls that ran the update loop
    lastUpd,                  \* per component: step of its latest update() (0 = never)
    observed,                 \* per component: what its latest update() read from the others
    writer,                   \* per cell: the component that made the latest write
    lastSet,                  \* per cell: the any passed to the latest successful setState
    path_cache_,              \* per component object: path -> StateId already parsed
    path,                     \* the path string the components are given to read
    configs_,                 \* ConfigManager: ConfigFileType -> json document
    hdf5_,                    \* one HDF5Writer object and the outcome of its latest call
    flow_,                    \* one FlowController object and the outcome of its latest call
    timing_,                  \* one TimingManagerComponent object and the states it published
    ret                       \* outcome of the latest call

vars == <<components_, states_, executionOrder_, componentDependencies_,
          componentPriorities_, stateSpecs_, needsRevalidation_, initCount, stepCount,
          lastUpd, observed, writer, lastSet, path_cache_, path, configs_, hdf5_, flow_, timing_,
          ret>>

\* the state of the utility objects, which the state manager never touches
utilityVars == <<configs_, hdf5_, flow_, timing_>>

\* the state of the state manager and its components, which the utility
\* objects never touch
coreVars == <<components_, states_, executionOrder_, componentDependencies_,
              componentPriorities_, stateSpecs_, needsRevalidation_, initCount, stepCount,
              lastUpd, observed, writer, lastSet, path_cache_, path>>

\* arg: the interface the registered component offered; calls: the lifecycle
\* calls made on components, in order; conflicts: the priority conflicts logged
Ret(op, err, msg) ==
    [op |-> op, err |-> err, msg |-> msg, names |-> {},
     id |-> NoStateId, type |-> "void", value |-> EmptyAny,
     arg |-> "", calls |-> << >>, conflicts |-> {}]

\* one lifecycle call on a component
Call(call, c) == [call |-> call, id |-> c]

Unread == [msg |-> "unread", value |-> EmptyAny]

\* the outcome of a FlowController call: what it returned, the entry, exit and
\* transition actions it ran, the transitions whose condition it evaluated with
\* the values they gave, and the transition it executed (0 for none)
FlowCall(op, arg, result) ==
    [op |-> op, arg |-> arg, result |-> result, actions |-> << >>,
     evaluated |-> << >>, conds |-> << >>, fired |-> 0]

\* FlowController::FlowController(id, instanceName, initial_state); states_ maps
\* a defined state to whether it has entry and exit actions
FlowControllerConstruct(initial_state) ==
    [isInitialized_ |-> FALSE, current_state_ |-> initial_state, previous_state_ |-> "",
     initial_state_ |-> initial_state, state_changed_ |-> FALSE,
     states_ |-> << >>, transitions_ |-> << >>, event_transitions_ |-> << >>,
     state_history_ |-> << >>, max_history_size_ |-> 100,
     last |-> FlowCall("FlowController", initial_state, TRUE)]

\* no HDF5Writer has been constructed
\* TimingManagerComponent as constructed: the member initialisers. Times are
\* whole numbers of a tick, so that the double additions of the code are exact;
\* out is what the component has published with setState, updates counts the
\* calls of updateImpl and reached tells whether one of them found
\* current_time_s_ >= duration_s_ (neither is in the code)
default_duration_s == 10
default_time_step_s == 1

TimingManagerConstruct ==
    [duration_s_ |-> default_duration_s, time_step_s_ |-> default_time_step_s,
     current_time_s_ |-> 0, frame_count_ |-> 0, should_run_ |-> TRUE,
     out |-> << >>, updates |-> 0, reached |-> FALSE]

NoWriter ==
    [constructed |-> FALSE, available |-> FALSE, initialized_ |-> FALSE, current_row_ |-> 0,
     states_ |-> 0, extent |-> 0, last |-> [op |-> "none", err |-> "none", msg |-> "", arg |-> 0]]

\* the manager and the component objects after construction
InitManager ==
    /\ components_ = {}
    /\ states_ = << >>
    /\ executionOrder_ = << >>
    /\ componentDependencies_ = << >>
    /\ componentPriorities_ = << >>
    /\ stateSpecs_ = << >>
    /\ needsRevalidation_ = TRUE
    /\ initCount = [c \in Ids |-> 0]
    /\ stepCount = 0
    /\ lastUpd = [c \in Ids |-> 0]
    /\ observed = [c \in Ids |-> [p \in Ids |-> Unread]]
    /\ writer = << >>
    /\ lastSet = << >>
    /\ path_cache_ = [c \in Ids |-> << >>]
    /\ configs_ = << >>
    /\ hdf5_ = NoWriter
    /\ flow_ = FlowControllerConstruct("S")
    /\ timing_ = TimingManagerConstruct
    /\ ret = Ret("construct", "none", "")

Init == InitManager /\ path = << >>

\* ------------------------------------------------------------ state store
\* variant: the stored type is not compared with the requested one
getStateImpl_NoTypeCheck(st, id, type) ==
    IF id \in DOMAIN st
    THEN IF st[id].type = "void"
         THEN [err |-> "StateAccessError", msg |-> "not initialized", value |-> EmptyAny]
         ELSE [err |-> "none", msg |-> "", value |-> st[id]]
    ELSE [err |-> "StateAccessError", msg |-> "not found", value |-> EmptyAny]

\* variant: an empty cell is not told apart from a cell of another type
getStateImpl_NoEmptyCheck(st, id, type) ==
    IF id \in DOMAIN st
    THEN IF st[id].type # type
         THEN [err |-> "StateAccessError", msg |-> "type mismatch", value |-> EmptyAny]
         ELSE [err |-> "none", msg |-> "", value |-> st[id]]
    ELSE [err |-> "StateAccessError", msg |-> "not found", value |-> EmptyAny]

\* StateManager::getStateImpl
getStateImpl(st, id, type) ==
    IF id \in DOMAIN st
    THEN IF st[id].type = "void"
         THEN [err |-> "StateAccessError", msg |-> "not initialized", value |-> EmptyAny]
         ELSE IF st[id].type # type
              THEN [err |-> "StateAccessError", msg |-> "type mismatch", value |-> EmptyAny]
              ELSE [err |-> "none", msg |-> "", value |-> st[id]]
    ELSE [err |-> "StateAccessError", msg |-> "not found", value |-> EmptyAny]

\* variant: the write reports success and stores nothing
setStateImpl_Dropped(st, id, value) ==
    IF id \in DOMAIN st
    THEN [err |-> "none", msg |-> "", states |-> st]
    ELSE [err |-> "StateAccessError", msg |-> "undeclared output", states |-> st]

\* variant: a write to an id without a cell creates the cell
setStateImpl_Creates(st, id, value) ==
    [err |-> "none", msg |-> "",
     states |-> [x \in DOMAIN st \cup {id} |-> IF x = id THEN value ELSE st[x]]]

\* StateManager::setStateImpl
setStateImpl(st, id, value) ==
    IF id \in DOMAIN st
    THEN [err |-> "none", msg |-> "", states |-> [st EXCEPT ![id] = value]]
    ELSE [err |-> "StateAccessError", msg |-> "undeclared output", states |-> st]

\* a function extended or overwritten at one key (operator[] of the maps)
Put(f, k, v) == [x \in DOMAIN f \cup {k} |-> IF x = k THEN v ELSE f[x]]

\* ------------------------------------------------------ component interface
\* the name a fixture component gives to its input fed by component d
InName(d) == CASE d = A1 -> "in_A1" [] d = B1 -> "in_B1" [] d = A2 -> "in_A2"

InterfaceKinds == {"ok", "duplicateName", "requiredNoSource",
                   "componentLevel", "wrongType", "missingOutput"}

\* a type other than t
OtherType(t) == IF t = "int" THEN "dbl" ELSE "int"

\* the input StateSpecs of component c. "componentLevel": one
\* declareInput<void>(ComponentId) for every component in req, which leaves the
\* state name and the source state name empty. Every other kind: a required
\* input for every component in req and an optional input (required = false)
\* for every other component, declared with the source output's type and name
\* except under "wrongType" and "missingOutput". NoStateId stands for an absent
\* source (std::nullopt)
getInputs(c, req, kind) ==
    IF kind = "componentLevel"
    THEN {[name |-> "", type |-> "void", source |-> StateId(d, ""), required |-> TRUE]
             : d \in req}
    ELSE {[name |-> InName(d),
           type |-> IF kind = "wrongType" THEN OtherType(OutputSpec(d).type)
                    ELSE OutputSpec(d).type,
           source |-> StateId(d, IF kind = "missingOutput" THEN "z" ELSE OutputSpec(d).name),
           required |-> d \in req]
             : d \in (Ids \ {c}) \cup req}
         \cup (IF kind = "requiredNoSource"
               THEN {[name |-> "in_extra", type |-> "int", source |-> NoStateId,
                      required |-> TRUE]} ELSE {})
         \cup (IF kind = "duplicateName"
               THEN {[name |-> OutputSpec(c).name, type |-> "int", source |-> NoStateId,
                      required |-> FALSE]} ELSE {})

\* getInterface() followed by StateInterface::validate(): TRUE when neither throws
InterfaceValid(c, inputs) ==
    LET names == {s.name : s \in inputs} \cup {o.name : o \in getOutputs(c)}
    IN /\ Cardinality(names) = Cardinality(inputs) + Cardinality(getOutputs(c))
       /\ \A s \in inputs : s.name # ""
       /\ \A s \in inputs : ~(s.required /\ s.source = NoStateId)
       /\ \A s \in inputs : s.source # NoStateId =>
              (s.source.component.name # "" /\ s.source.name # "")

\* ---------------------------------------------------------------- registry
\* variant: a cell is created only for an output that declares a default
createCells_SkipsUndefaulted(c) ==
    LET ids == {StateId(c, o.name) : o \in {x \in getOutputs(c) : x.default_value # EmptyAny}}
    IN [id \in ids |-> (CHOOSE o \in getOutputs(c) : o.name = id.name).default_value]

\* the cell creation loop of registerComponent: one cell per declared output,
\* holding the declared default or an empty any
createCells(c) ==
    LET ids == {StateId(c, o.name) : o \in getOutputs(c)}
    IN [id \in ids |-> (CHOOSE o \in getOutputs(c) : o.name = id.name).default_value]

\* variant: every input with a source adds a dependency, required or not
extractComponentDeps_IgnoresRequired(inputs) ==
    {i.source.component : i \in {x \in inputs : x.source # NoStateId}}

\* the dependency extraction of registerComponent: the source components of the
\* required inputs that have a source
extractComponentDeps(inputs) ==
    {i.source.component : i \in {x \in inputs : x.source # NoStateId /\ x.required}}

\* variant: component ids compared by name alone
isRegistered_ByName(c) == \E d \in components_ : d.name = c.name

\* components_.count(id)
isRegistered(c) == c \in components_

\* variant: a rejected registration marks the schedule dirty
registerComponent_DirtyOnFailure(c, req, kind, priority) ==
    LET inputs == getInputs(c, req, kind)
        componentDeps == extractComponentDeps(inputs)
        newIds == {StateId(c, o.name) : o \in getOutputs(c)}
    IN IF c = NullComponent
       THEN /\ ret' = Ret("registerComponent", "none", "null component")
            /\ UNCHANGED <<utilityVars, path_cache_, path, components_, stateSpecs_, states_, executionOrder_, componentDependencies_,
                           componentPriorities_, needsRevalidation_, initCount, stepCount,
                           lastUpd, observed, writer, lastSet>>
       ELSE IF isRegistered(c)
       THEN /\ ret' = [Ret("registerComponent", "ConfigurationError", "already registered")
                          EXCEPT !.names = {c}, !.arg = kind]
            /\ needsRevalidation_' = TRUE
            /\ UNCHANGED <<utilityVars, path_cache_, path, components_, stateSpecs_, states_, executionOrder_, componentDependencies_,
                           componentPriorities_, initCount, stepCount,
                           lastUpd, observed, writer, lastSet>>
       ELSE IF ~InterfaceValid(c, inputs)
       THEN /\ ret' = [Ret("registerComponent", "ConfigurationError", "interface validation failed")
                          EXCEPT !.names = {c}, !.arg = kind]
            /\ needsRevalidation_' = TRUE
            /\ UNCHANGED <<utilityVars, path_cache_, path, components_, stateSpecs_, states_, executionOrder_, componentDependencies_,
                           componentPriorities_, initCount, stepCount,
                           lastUpd, observed, writer, lastSet>>
       ELSE /\ componentDependencies_' = Put(componentDependencies_, c, componentDeps)
            /\ componentPriorities_' = Put(componentPriorities_, c, priority)
            /\ states_' = [id \in DOMAIN states_ \cup DOMAIN createCells(c) |->
                              IF id \in DOMAIN createCells(c) THEN createCells(c)[id]
                              ELSE states_[id]]
            /\ writer' = [id \in DOMAIN writer \cup newIds |->
                              IF id \in newIds THEN NullComponent ELSE writer[id]]
            /\ lastSet' = [id \in DOMAIN lastSet \cup newIds |->
                              IF id \in newIds THEN EmptyAny ELSE lastSet[id]]
            /\ components_' = components_ \cup {c}
            /\ stateSpecs_' = Put(stateSpecs_, c, inputs)
            /\ needsRevalidation_' = TRUE
            /\ ret' = [Ret("registerComponent", "none", "") EXCEPT !.names = {c}, !.arg = kind]
            /\ UNCHANGED <<utilityVars, path_cache_, path, executionOrder_, initCount, stepCount, lastUpd, observed>>

\* StateManager::registerComponent(component, priority)
registerComponent(c, req, kind, priority) ==
    LET inputs == getInputs(c, req, kind)
        componentDeps == extractComponentDeps(inputs)
        newIds == {StateId(c, o.name) : o \in getOutputs(c)}
    IN IF c = NullComponent
       THEN /\ ret' = Ret("registerComponent", "none", "null component")
            /\ UNCHANGED <<utilityVars, path_cache_, path, components_, stateSpecs_, states_, executionOrder_, componentDependencies_,
                           componentPriorities_, needsRevalidation_, initCount, stepCount,
                           lastUpd, observed, writer, lastSet>>
       ELSE IF isRegistered(c)
       THEN /\ ret' = [Ret("registerComponent", "ConfigurationError", "already registered")
                          EXCEPT !.names = {c}, !.arg = kind]
            /\ UNCHANGED <<utilityVars, path_cache_, path, components_, stateSpecs_, states_, executionOrder_, componentDependencies_,
                           componentPriorities_, needsRevalidation_, initCount, stepCount,
                           lastUpd, observed, writer, lastSet>>
       ELSE IF ~InterfaceValid(c, inputs)
       THEN /\ ret' = [Ret("registerComponent", "ConfigurationError", "interface validation failed")
                          EXCEPT !.names = {c}, !.arg = kind]
            /\ UNCHANGED <<utilityVars, path_cache_, path, components_, stateSpecs_, states_, executionOrder_, componentDependencies_,
                           componentPriorities_, needsRevalidation_, initCount, stepCount,
                           lastUpd, observed, writer, lastSet>>
       ELSE /\ componentDependencies_' = Put(componentDependencies_, c, componentDeps)
            /\ componentPriorities_' = Put(componentPriorities_, c, priority)
            /\ states_' = [id \in DOMAIN states_ \cup DOMAIN createCells(c) |->
                              IF id \in DOMAIN createCells(c) THEN createCells(c)[id]
                              ELSE states_[id]]
            /\ writer' = [id \in DOMAIN writer \cup newIds |->
                              IF id \in newIds THEN NullComponent ELSE writer[id]]
            /\ lastSet' = [id \in DOMAIN lastSet \cup newIds |->
                              IF id \in newIds THEN EmptyAny ELSE lastSet[id]]
            /\ components_' = components_ \cup {c}
            /\ stateSpecs_' = Put(stateSpecs_, c, inputs)
            /\ needsRevalidation_' = TRUE
            /\ ret' = [Ret("registerComponent", "none", "") EXCEPT !.names = {c}, !.arg = kind]
            /\ UNCHANGED <<utilityVars, path_cache_, path, executionOrder_, initCount, stepCount, lastUpd, observed>>

\* ------------------------------------------------------------------- sorter
\* variant: the priority comparison reversed
priorityComparator_Reversed(a, b) ==
    LET priorityA == IF a \in DOMAIN componentPriorities_ THEN componentPriorities_[a] ELSE DEFAULT_PRIORITY
        priorityB == IF b \in DOMAIN componentPriorities_ THEN componentPriorities_[b] ELSE DEFAULT_PRIORITY
    IN IF priorityA # priorityB
       THEN priorityA > priorityB
       ELSE NameGreater(a.name, b.name)

\* the lambda priorityComparator of performPriorityAwareTopologicalSort
priorityComparator(a, b) ==
    LET priorityA == IF a \in DOMAIN componentPriorities_ THEN componentPriorities_[a] ELSE DEFAULT_PRIORITY
        priorityB == IF b \in DOMAIN componentPriorities_ THEN componentPriorities_[b] ELSE DEFAULT_PRIORITY
    IN IF priorityA # priorityB
       THEN priorityA < priorityB
       ELSE NameGreater(a.name, b.name)

\* readyQueue.top(): an element no other element compares greater than; which
\* of several equivalent elements the heap yields is left to the implementation
QueueTop(readyQueue) ==
    {a \in readyQueue : \A b \in readyQueue : ~priorityComparator(a, b)}

\* variant: every component starts with in-degree zero
initialInDegree_NoEdges(graph) == [c \in DOMAIN graph |-> 0]

\* the in-degree table before the main loop
initialInDegree(graph) == [c \in DOMAIN graph |-> Cardinality(graph[c])]

\* Kahn main loop; yields every [sorted_order, inDegree] the loop can end with
RECURSIVE KahnLoop(_, _, _, _)
KahnLoop(graph, inDegree, readyQueue, sorted_order) ==
    IF readyQueue = {}
    THEN {[sorted_order |-> sorted_order, inDegree |-> inDegree]}
    ELSE UNION {
        LET dependents == {c \in DOMAIN graph : current \in graph[c]}
            inDegree2 == [c \in DOMAIN inDegree |->
                             IF c \in dependents THEN inDegree[c] - 1 ELSE inDegree[c]]
            newlyReady == {c \in dependents : inDegree2[c] = 0}
        IN KahnLoop(graph, inDegree2, (readyQueue \ {current}) \cup newlyReady,
                    Append(sorted_order, current))
        : current \in QueueTop(readyQueue)}

\* variant: only components with more than one unmet dependency are listed
generateCyclicDependencyDiagnostics_Partial(inDegree) ==
    {c \in DOMAIN inDegree : inDegree[c] > 1}

\* generateCyclicDependencyDiagnostics: the components listed in the message
generateCyclicDependencyDiagnostics(inDegree) ==
    {c \in DOMAIN inDegree : inDegree[c] > 0}

\* position of component c in an execution order (0 when absent)
PosIn(order, c) ==
    IF \E i \in 1..Len(order) : order[i] = c
    THEN CHOOSE i \in 1..Len(order) : order[i] = c
    ELSE 0

\* variant: an edge between equal priorities is reported too
detectAndLogPriorityConflicts_NonStrict(sorted_order, graph) ==
    LET executionPosition(c) == IF PosIn(sorted_order, c) = 0 THEN 0 ELSE PosIn(sorted_order, c) - 1
        priorityOf(c) == IF c \in DOMAIN componentPriorities_ THEN componentPriorities_[c] ELSE DEFAULT_PRIORITY
    IN {e \in (DOMAIN graph) \X (Ids \cup {NullComponent}) :
           /\ e[2] \in graph[e[1]]
           /\ priorityOf(e[1]) >= priorityOf(e[2])
           /\ executionPosition(e[2]) < executionPosition(e[1])}

\* detectAndLogPriorityConflicts: the <<component, dependency>> pairs it logs a
\* conflict for; executionPosition[c] of a component outside the order is 0
detectAndLogPriorityConflicts(sorted_order, graph) ==
    LET executionPosition(c) == IF PosIn(sorted_order, c) = 0 THEN 0 ELSE PosIn(sorted_order, c) - 1
        priorityOf(c) == IF c \in DOMAIN componentPriorities_ THEN componentPriorities_[c] ELSE DEFAULT_PRIORITY
    IN {e \in (DOMAIN graph) \X (Ids \cup {NullComponent}) :
           /\ e[2] \in graph[e[1]]
           /\ priorityOf(e[1]) > priorityOf(e[2])
           /\ executionPosition(e[2]) < executionPosition(e[1])}

\* variant: an incomplete order is returned instead of raising
performPriorityAwareTopologicalSort_NoCycleCheck(graph) ==
    LET inDegree == initialInDegree(graph)
        runs == KahnLoop(graph, inDegree, {c \in DOMAIN inDegree : inDegree[c] = 0}, << >>)
    IN {[err |-> "none", names |-> {}, sorted_order |-> r.sorted_order,
         conflicts |-> detectAndLogPriorityConflicts(r.sorted_order, graph)]
        : r \in runs}

\* performPriorityAwareTopologicalSort(graph): every result it can produce
performPriorityAwareTopologicalSort(graph) ==
    LET inDegree == initialInDegree(graph)
        runs == KahnLoop(graph, inDegree, {c \in DOMAIN inDegree : inDegree[c] = 0}, << >>)
    IN {IF Len(r.sorted_order) # Cardinality(components_)
        THEN [err |-> "DependencyError", names |-> generateCyclicDependencyDiagnostics(r.inDegree),
              sorted_order |-> r.sorted_order, conflicts |-> {}]
        ELSE [err |-> "none", names |-> {}, sorted_order |-> r.sorted_order,
              conflicts |-> detectAndLogPriorityConflicts(r.sorted_order, graph)]
        : r \in runs}

\* validateComponentDependencies: the (component, missing dependency) pairs reported
validateComponentDependencies ==
    {<<c, d>> \in (DOMAIN componentDependencies_) \X (Ids \cup {NullComponent}) :
        d \in componentDependencies_[c] /\ d \notin components_}

SeqToSet(s) == {s[i] : i \in 1..Len(s)}

\* number of positions of sequence s that hold x
CountIn(s, x) == Cardinality({i \in 1..Len(s) : s[i] = x})

\* variant: the initialization loop walks the order from its end
initializeLoop_Reversed(order) ==
    LET n == Len(order)
    IN SelectSeq([i \in 1..n |-> order[n + 1 - i]], LAMBDA c : c \in components_)

\* the initialization loop of validateAndSortComponents: the components whose
\* initialize() it calls, in call order
initializeLoop(order) == SelectSeq(order, LAMBDA c : c \in components_)

\* variant: the components sorted so far are initialized before the sort's
\* error is raised
validateAndInitialize_InitializesOnError(s) ==
    LET initialized == initializeLoop(s.sorted_order)
    IN [err |-> s.err, msg |-> IF s.err = "none" THEN "" ELSE "cyclic dependency",
        names |-> s.names, conflicts |-> s.conflicts,
        executionOrder |-> IF s.err = "none" THEN s.sorted_order ELSE executionOrder_,
        calls |-> [i \in 1..Len(initialized) |-> Call("initialize", initialized[i])],
        initCount |-> [c \in Ids |-> initCount[c] + CountIn(initialized, c)],
        needsRevalidation |-> s.err # "none"]

\* validateAndSortComponents from the sort's result s on: the exception of the
\* sort propagates; otherwise the registration check of the order, the
\* dependency validation and the initialization loop
validateAndInitialize(s) ==
    IF s.err # "none"
    THEN [err |-> s.err, msg |-> "cyclic dependency", names |-> s.names,
          conflicts |-> s.conflicts, executionOrder |-> executionOrder_,
          calls |-> << >>, initCount |-> initCount, needsRevalidation |-> TRUE]
    ELSE IF SeqToSet(s.sorted_order) \ components_ # {}
    THEN [err |-> "ConfigurationError", msg |-> "not registered",
          names |-> SeqToSet(s.sorted_order) \ components_,
          conflicts |-> s.conflicts, executionOrder |-> s.sorted_order,
          calls |-> << >>, initCount |-> initCount, needsRevalidation |-> TRUE]
    ELSE IF validateComponentDependencies # {}
    THEN [err |-> "ConfigurationError", msg |-> "dependency validation failed",
          names |-> {p[1] : p \in validateComponentDependencies}
                    \cup {p[2] : p \in validateComponentDependencies},
          conflicts |-> s.conflicts, executionOrder |-> s.sorted_order,
          calls |-> << >>, initCount |-> initCount, needsRevalidation |-> TRUE]
    ELSE LET initialized == initializeLoop(s.sorted_order)
         IN [err |-> "none", msg |-> "", names |-> {}, conflicts |-> s.conflicts,
             executionOrder |-> s.sorted_order,
             calls |-> [i \in 1..Len(initialized) |-> Call("initialize", initialized[i])],
             initCount |-> [c \in Ids |-> initCount[c] + CountIn(initialized, c)],
             needsRevalidation |-> FALSE]

\* the graph validateAndSortComponents builds from the stored dependencies
dependencyGraph ==
    [c \in components_ |->
        IF c \in DOMAIN componentDependencies_ THEN componentDependencies_[c] ELSE {}]

\* validateAndSortComponents with the dirty flag set: every outcome it can have
validateAndSortOutcomes ==
    {validateAndInitialize(s) : s \in performPriorityAwareTopologicalSort(dependencyGraph)}

\* variant: the dirty flag is not consulted and the schedule is computed anew
validateAndSortSkipped_Recomputes == CHOOSE o \in validateAndSortOutcomes : TRUE

\* the outcome of validateAndSortComponents when the dirty flag is clear
validateAndSortSkipped ==
    [err |-> "none", msg |-> "", names |-> {}, conflicts |-> {},
     executionOrder |-> executionOrder_, calls |-> << >>,
     initCount |-> initCount, needsRevalidation |-> needsRevalidation_]

\* StateManager::validateAndSortComponents
validateAndSortComponents ==
    \E o \in (IF needsRevalidation_ THEN validateAndSortOutcomes ELSE {validateAndSortSkipped}) :
        /\ executionOrder_' = o.executionOrder
        /\ initCount' = o.initCount
        /\ needsRevalidation_' = o.needsRevalidation
        /\ ret' = [Ret("validateAndSortComponents", o.err, o.msg)
                      EXCEPT !.names = o.names, !.calls = o.calls, !.conflicts = o.conflicts]
        /\ UNCHANGED <<utilityVars, path_cache_, path, components_, stateSpecs_, states_, componentDependencies_, componentPriorities_,
                       stepCount, lastUpd, observed, writer, lastSet>>

\* ------------------------------------------------------------ store access
\* IStateAccess::getState<T>(id)
getState(st, id, T) == getStateImpl(st, id, T)

\* IStateAccess::setState<T>(id, value)
setState(st, id, T, v) == setStateImpl(st, id, MakeAny(T, v))

\* --------------------------------------------------------- lifecycle driver
\* update() of the fixture component c in step number step: it reads the output
\* of every other component (catching StateAccessError), then writes its own
\* output through ComponentBase::setState
componentUpdate(c, s, step) ==
    LET out == OutputSpec(c)
        own == StateId(c, out.name)
        w == setState(s.states, own, out.type, step)
        read(p) == getState(s.states, StateId(p, OutputSpec(p).name), OutputSpec(p).type)
    IN [states |-> w.states,
        observed |-> [s.observed EXCEPT ![c] =
                         [p \in Ids |-> IF p = c THEN Unread
                                        ELSE [msg |-> IF read(p).err = "none" THEN "ok" ELSE read(p).msg,
                                              value |-> read(p).value]]],
        lastUpd |-> [s.lastUpd EXCEPT ![c] = step],
        calls |-> Append(s.calls, Call("update", c)),
        err |-> s.err, msg |-> s.msg,
        writer |-> IF w.err = "none" THEN [s.writer EXCEPT ![own] = c] ELSE s.writer,
        lastSet |-> IF w.err = "none" THEN [s.lastSet EXCEPT ![own] = MakeAny(out.type, step)]
                    ELSE s.lastSet]

\* update() of a component that reads each of its required inputs with the type
\* the input declares and does not catch StateAccessError, then writes its own
\* output; a failed read ends update() before the write
componentUpdateUncaught(c, s, step) ==
    LET out == OutputSpec(c)
        own == StateId(c, out.name)
        w == setState(s.states, own, out.type, step)
        failed == {r \in {getState(s.states, i.source, i.type) :
                             i \in {x \in stateSpecs_[c] : x.required}} : r.err # "none"}
        base == [s EXCEPT !.lastUpd = [s.lastUpd EXCEPT ![c] = step],
                          !.calls = Append(s.calls, Call("update", c))]
    IN IF failed # {}
       THEN [base EXCEPT !.err = "StateAccessError",
                         !.msg = (CHOOSE r \in failed : TRUE).msg]
       ELSE [base EXCEPT !.states = w.states,
                         !.writer = IF w.err = "none" THEN [s.writer EXCEPT ![own] = c]
                                    ELSE s.writer,
                         !.lastSet = IF w.err = "none"
                                     THEN [s.lastSet EXCEPT ![own] = MakeAny(out.type, step)]
                                     ELSE s.lastSet]

\* variant: the exception of one update() is swallowed and the loop goes on
RECURSIVE updateLoopUncaught_Continues(_, _, _, _)
updateLoopUncaught_Continues(order, i, s, step) ==
    IF i > Len(order) THEN s
    ELSE updateLoopUncaught_Continues(order, i + 1,
                    IF order[i] \in components_
                    THEN [componentUpdateUncaught(order[i], s, step)
                             EXCEPT !.err = "none", !.msg = ""]
                    ELSE s,
                    step)

\* the loop of updateAll over components that do not catch: the exception of an
\* update() leaves the loop
RECURSIVE updateLoopUncaught(_, _, _, _)
updateLoopUncaught(order, i, s, step) ==
    IF i > Len(order) \/ s.err # "none" THEN s
    ELSE updateLoopUncaught(order, i + 1,
                    IF order[i] \in components_
                    THEN componentUpdateUncaught(order[i], s, step) ELSE s,
                    step)

\* variant: the loop stops one position short of the end of executionOrder_
RECURSIVE updateLoop_StopsShort(_, _, _, _)
updateLoop_StopsShort(order, i, s, step) ==
    IF i >= Len(order) THEN s
    ELSE updateLoop_StopsShort(order, i + 1,
                    IF order[i] \in components_ THEN componentUpdate(order[i], s, step) ELSE s,
                    step)

\* variant: the loop walks executionOrder_ from its end
RECURSIVE updateLoop_Reversed(_, _, _, _)
updateLoop_Reversed(order, i, s, step) ==
    IF i > Len(order) THEN s
    ELSE updateLoop_Reversed(order, i + 1,
                    IF order[Len(order) + 1 - i] \in components_
                    THEN componentUpdate(order[Len(order) + 1 - i], s, step) ELSE s,
                    step)

\* the loop of updateAll over executionOrder_, from position i on
RECURSIVE updateLoop(_, _, _, _)
updateLoop(order, i, s, step) ==
    IF i > Len(order) THEN s
    ELSE updateLoop(order, i + 1,
                    IF order[i] \in components_ THEN componentUpdate(order[i], s, step) ELSE s,
                    step)

\* StateManager::updateAll; uncaught tells whether the components' update()
\* lets a StateAccessError escape
updateAllWith(uncaught) ==
    LET Loop(order, i, s, step) == IF uncaught THEN updateLoopUncaught(order, i, s, step)
                                   ELSE updateLoop(order, i, s, step)
    IN
    /\ stepCount < MaxSteps
    /\ \E o \in (IF needsRevalidation_ THEN validateAndSortOutcomes ELSE {validateAndSortSkipped}) :
        /\ executionOrder_' = o.executionOrder
        /\ initCount' = o.initCount
        /\ needsRevalidation_' = o.needsRevalidation
        /\ IF o.err # "none"
           THEN /\ ret' = [Ret("updateAll", o.err, o.msg)
                              EXCEPT !.names = o.names, !.calls = o.calls,
                                     !.conflicts = o.conflicts]
                /\ UNCHANGED <<states_, stepCount, lastUpd, observed, writer, lastSet>>
           ELSE LET s == Loop(o.executionOrder, 1,
                              [states |-> states_, observed |-> observed,
                               lastUpd |-> lastUpd, writer |-> writer,
                               lastSet |-> lastSet, calls |-> o.calls,
                               err |-> "none", msg |-> ""],
                              stepCount + 1)
                IN /\ states_' = s.states
                   /\ observed' = s.observed
                   /\ lastUpd' = s.lastUpd
                   /\ writer' = s.writer
                   /\ lastSet' = s.lastSet
                   /\ stepCount' = stepCount + 1
                   /\ ret' = [Ret("updateAll", s.err, s.msg)
                                 EXCEPT !.calls = s.calls, !.conflicts = o.conflicts]
        /\ UNCHANGED <<utilityVars, path_cache_, path, components_, stateSpecs_, componentDependencies_, componentPriorities_>>

\* StateManager::updateAll
updateAll == updateAllWith(FALSE)

\* StateManager::updateAll over components that do not catch StateAccessError
updateAllUncaught == updateAllWith(TRUE)

\* ------------------------------------------------------------ introspection
\* StateManager::getAllComponentIds (the vector as a set)
getAllComponentIds == components_

\* StateManager::getComponentOutputStates
getComponentOutputStates(component_id) ==
    IF component_id \in components_
    THEN {StateId(component_id, output.name) : output \in getOutputs(component_id)}
    ELSE {}

\* StateManager::getAllOutputStates
getAllOutputStates ==
    UNION {{StateId(component_id, output.name) : output \in getOutputs(component_id)}
              : component_id \in components_}

\* variant: the owning component is looked up by its name alone
getStateType_ByName(state_id) ==
    LET owners == {c \in components_ : c.name = state_id.component.name}
        found == UNION {{output \in getOutputs(c) : output.name = state_id.name} : c \in owners}
    IN IF found # {} THEN (CHOOSE output \in found : TRUE).type ELSE ""

\* StateManager::getStateType
getStateType(state_id) ==
    LET found == IF state_id.component \in components_
                 THEN {output \in getOutputs(state_id.component) : output.name = state_id.name}
                 ELSE {}
    IN IF found # {} THEN (CHOOSE output \in found : TRUE).type ELSE ""

\* StateManager::getRawStateValue
getRawStateValue(state_id) ==
    IF state_id \in DOMAIN states_
    THEN [err |-> "none", msg |-> "", value |-> states_[state_id]]
    ELSE [err |-> "StateAccessError", msg |-> "not found", value |-> EmptyAny]

\* ---------------------------------------------------------------- teardown
\* the manager object still exists
Alive == ret.op # "~StateManager"

\* every order in which the elements of set S can be visited
RECURSIVE Orderings(_)
Orderings(S) ==
    IF S = {} THEN {<< >>}
    ELSE UNION {{<<x>> \o t : t \in Orderings(S \ {x})} : x \in S}

\* variant: the order is not reversed
finalizeLoop_Forward(order) == SelectSeq(order, LAMBDA c : c \in components_)

\* variant: the loop stops one position short of the end of reverse_order
finalizeLoop_StopsShort(order) ==
    LET n == Len(order)
    IN SelectSeq([i \in 1..(IF n = 0 THEN 0 ELSE n - 1) |-> order[n + 1 - i]],
                 LAMBDA c : c \in components_)

\* the finalization loop of the destructor: the components whose finalize() it
\* calls, in call order
finalizeLoop(order) ==
    LET n == Len(order)
    IN SelectSeq([i \in 1..n |-> order[n + 1 - i]], LAMBDA c : c \in components_)

\* StateManager::~StateManager; the release loop visits the registry map in an
\* order the map implementation picks
destructor ==
    /\ Alive
    /\ \E released \in Orderings(components_) :
          LET finalized == finalizeLoop(executionOrder_)
          IN ret' = [Ret("~StateManager", "none", "") EXCEPT !.calls =
                        [i \in 1..Len(finalized) |-> Call("finalize", finalized[i])]
                        \o [i \in 1..Len(released) |-> Call("release", released[i])]]
    /\ components_' = {}
    /\ stateSpecs_' = << >>
    /\ states_' = << >>
    /\ componentDependencies_' = << >>
    /\ path_cache_' = [c \in Ids |-> IF c \in components_ THEN << >> ELSE path_cache_[c]]
    /\ UNCHANGED <<utilityVars, path, executionOrder_, componentPriorities_, needsRevalidation_, initCount,
                   stepCount, lastUpd, observed, writer, lastSet>>

\* ------------------------------------------------- calls made by components
CallRet(op, r, id, T, value) ==
    [Ret(op, r.err, r.msg) EXCEPT !.id = id, !.type = T, !.value = value]

\* the store write of caller c on cell id, shared by the two setState paths
storeWrite(op, c, id, T, v) ==
    LET w == setState(states_, id, T, v)
    IN /\ states_' = w.states
       /\ writer' = IF w.err = "none" THEN [writer EXCEPT ![id] = c] ELSE writer
       /\ lastSet' = IF w.err = "none" THEN [lastSet EXCEPT ![id] = MakeAny(T, v)] ELSE lastSet
       /\ ret' = CallRet(op, w, id, T, MakeAny(T, v))
       /\ UNCHANGED <<utilityVars, path_cache_, path, components_, stateSpecs_, executionOrder_, componentDependencies_,
                      componentPriorities_, needsRevalidation_, initCount, stepCount,
                      lastUpd, observed>>

\* ComponentBase::setState<T>(name, value) called by the registered component c
componentSetState(c, name, T, v) ==
    /\ c \in components_
    /\ storeWrite("setState", c, StateId(c, name), T, v)

\* getStateAccess()->setState<T>(id, value) called by the registered component c
handleSetState(c, id, T, v) ==
    /\ c \in components_
    /\ storeWrite("handleSetState", c, id, T, v)

\* ComponentBase::getState<T>(stateId) called by the registered component c
componentGetState(c, id, T) ==
    /\ c \in components_
    /\ ret' = CallRet("getState", getState(states_, id, T), id, T, getState(states_, id, T).value)
    /\ UNCHANGED <<utilityVars, path_cache_, path, components_, stateSpecs_, states_, executionOrder_, componentDependencies_,
                   componentPriorities_, needsRevalidation_, initCount, stepCount,
                   lastUpd, observed, writer, lastSet>>

\* ------------------------------------------------------------ path accessor
\* a std::string is a sequence of characters; Str gives the string it spells
Chars == {".", "1", "B", "y"}
Paths == UNION {[1..n -> Chars] : n \in 0..MaxPathLen}

RECURSIVE Str(_)
Str(s) == IF s = << >> THEN "" ELSE s[1] \o Str(Tail(s))

\* std::string::npos and std::string::find('.', from), positions counted from 1
npos == 0
find(s, from) ==
    LET hits == {i \in from..Len(s) : s[i] = "."}
    IN IF hits = {} THEN npos ELSE CHOOSE i \in hits : \A j \in hits : i <= j

\* std::string::substr(pos) and substr(pos, count), positions counted from 1
substr(s, pos, count) ==
    LET last == IF pos + count - 1 > Len(s) THEN Len(s) ELSE pos + count - 1
    IN SubSeq(s, pos, last)

DigitChars == <<"0", "1", "2", "3", "4", "5", "6", "7", "8", "9">>
IsDigit(ch) == \E i \in 1..10 : DigitChars[i] = ch
DigitVal(ch) == (CHOOSE i \in 1..10 : DigitChars[i] = ch) - 1
INT_MAX == 2147483647

RECURSIVE Decimal(_)
Decimal(s) == IF s = << >> THEN 0 ELSE 10 * Decimal(SubSeq(s, 1, Len(s) - 1)) + DigitVal(s[Len(s)])

\* std::stoi over the characters in use (no blanks, no sign): the value of the
\* longest prefix of digits; no digit or a value beyond int is an exception
stoi(s) ==
    LET n == Cardinality({k \in 1..Len(s) : \A i \in 1..k : IsDigit(s[i])})
    IN IF n = 0 THEN [err |-> "invalid_argument", value |-> 0]
       ELSE IF Decimal(SubSeq(s, 1, n)) > INT_MAX THEN [err |-> "out_of_range", value |-> 0]
       ELSE [err |-> "none", value |-> Decimal(SubSeq(s, 1, n))]

vehiclePrefix == <<"v", "e", "h", "i", "c", "l", "e">>

ParseOk(id) == [err |-> "none", msg |-> "", id |-> id]
ParseError(msg) == [err |-> "runtime_error", msg |-> msg, id |-> NoStateId]

\* variant: a path that starts with its only dot is taken as a component of
\* empty name
parsePath_NoLeadingDotCheck(c, p) ==
    LET first_dot == find(p, 1)
        second_dot == find(p, first_dot + 1)
    IN IF first_dot = npos
       THEN ParseOk(StateId(c, Str(p)))
       ELSE IF second_dot = npos
       THEN IF first_dot = Len(p)
            THEN ParseError("Invalid state path format")
            ELSE ParseOk(StateId([vehicleId |-> c.vehicleId,
                                  name |-> Str(substr(p, 1, first_dot - 1))],
                                 Str(substr(p, first_dot + 1, Len(p)))))
       ELSE IF first_dot = 1 \/ second_dot = first_dot + 1 \/ second_dot = Len(p)
       THEN ParseError("Invalid state path format")
       ELSE LET vehicle_id_str == substr(p, 1, first_dot - 1)
                component_name == substr(p, first_dot + 1, second_dot - first_dot - 1)
                state_name == substr(p, second_dot + 1, Len(p))
                target == IF substr(vehicle_id_str, 1, 7) = vehiclePrefix
                          THEN stoi(substr(vehicle_id_str, 8, Len(p)))
                          ELSE stoi(vehicle_id_str)
            IN IF target.err # "none"
               THEN ParseError("Invalid vehicle ID in path")
               ELSE ParseOk(StateId([vehicleId |-> target.value, name |-> Str(component_name)],
                                    Str(state_name)))

\* ComponentBase::parsePath of the component c
parsePath(c, p) ==
    LET first_dot == find(p, 1)
        second_dot == find(p, first_dot + 1)
    IN IF first_dot = npos
       THEN ParseOk(StateId(c, Str(p)))
       ELSE IF second_dot = npos
       THEN IF first_dot = 1 \/ first_dot = Len(p)
            THEN ParseError("Invalid state path format")
            ELSE ParseOk(StateId([vehicleId |-> c.vehicleId,
                                  name |-> Str(substr(p, 1, first_dot - 1))],
                                 Str(substr(p, first_dot + 1, Len(p)))))
       ELSE IF first_dot = 1 \/ second_dot = first_dot + 1 \/ second_dot = Len(p)
       THEN ParseError("Invalid state path format")
       ELSE LET vehicle_id_str == substr(p, 1, first_dot - 1)
                component_name == substr(p, first_dot + 1, second_dot - first_dot - 1)
                state_name == substr(p, second_dot + 1, Len(p))
                target == IF substr(vehicle_id_str, 1, 7) = vehiclePrefix
                          THEN stoi(substr(vehicle_id_str, 8, Len(p)))
                          ELSE stoi(vehicle_id_str)
            IN IF target.err # "none"
               THEN ParseError("Invalid vehicle ID in path")
               ELSE ParseOk(StateId([vehicleId |-> target.value, name |-> Str(component_name)],
                                    Str(state_name)))

\* the outcome of a get<T>(p): arg is the path it was given
GetRet(r, id, T, p) == [CallRet("get", r, id, T, r.value) EXCEPT !.arg = Str(p)]

\* ComponentBase::get<T>(path) called by the component c
componentGet(c, p, T) ==
    /\ IF c \notin components_
       THEN /\ ret' = GetRet([err |-> "runtime_error", msg |-> "Component not registered",
                              value |-> EmptyAny], NoStateId, T, p)
            /\ UNCHANGED path_cache_
       ELSE IF p \in DOMAIN path_cache_[c]
       THEN /\ ret' = GetRet(getState(states_, path_cache_[c][p], T), path_cache_[c][p], T, p)
            /\ UNCHANGED path_cache_
       ELSE LET parsed == parsePath(c, p)
            IN IF parsed.err # "none"
               THEN /\ ret' = GetRet([err |-> parsed.err, msg |-> parsed.msg, value |-> EmptyAny],
                                     NoStateId, T, p)
                    /\ UNCHANGED path_cache_
               ELSE /\ path_cache_' = [path_cache_ EXCEPT ![c] = Put(@, p, parsed.id)]
                    /\ ret' = GetRet(getState(states_, parsed.id, T), parsed.id, T, p)
    /\ UNCHANGED <<utilityVars, path, components_, stateSpecs_, states_, executionOrder_, componentDependencies_,
                   componentPriorities_, needsRevalidation_, initCount, stepCount,
                   lastUpd, observed, writer, lastSet>>

\* ------------------------------------------------------------ ConfigManager
\* nlohmann::json values: null, a number, or an object (member name -> json)
JNull == [kind |-> "null"]
JNum(n) == [kind |-> "number", val |-> n]
JObj(m) == [kind |-> "object", members |-> m]

\* json::contains(key)
contains(j, key) == j.kind = "object" /\ key \in DOMAIN j.members

\* the sequence s without its first element equal to "." and what precedes it
RECURSIVE getline(_)
getline(s) == IF s = << >> \/ Head(s) = "." THEN << >> ELSE <<Head(s)>> \o getline(Tail(s))

\* ConfigManager::parseJsonPath: the non-empty pieces between the dots
RECURSIVE parseJsonPath(_)
parseJsonPath(json_path) ==
    IF json_path = << >> THEN << >>
    ELSE LET component == getline(json_path)
             rest == IF Len(component) = Len(json_path) THEN << >>
                     ELSE SubSeq(json_path, Len(component) + 2, Len(json_path))
         IN IF component # << >>
            THEN <<Str(component)>> \o parseJsonPath(rest)
            ELSE parseJsonPath(rest)

\* ConfigManager::getValueByPath
RECURSIVE getValueByPath(_, _)
getValueByPath(json, p) ==
    IF p = << >> THEN json
    ELSE IF contains(json, Head(p)) THEN getValueByPath(json.members[Head(p)], Tail(p))
    ELSE JNull

\* json::operator[](key) = value on a non-const json: null turns into an
\* object, an object gets or replaces the member, anything else throws
AssignMember(j, key, value) ==
    CASE j.kind = "null" -> [err |-> "none", json |-> JObj(Put(<< >>, key, value))]
      [] j.kind = "object" -> [err |-> "none", json |-> JObj(Put(j.members, key, value))]
      [] OTHER -> [err |-> "type_error", json |-> j]

\* ConfigManager::setValueByPath for a path of at least one component
RECURSIVE setValueByPath(_, _, _)
setValueByPath(json, p, value) ==
    IF Len(p) = 1 THEN AssignMember(json, Head(p), value)
    ELSE LET made == IF contains(json, Head(p)) THEN [err |-> "none", json |-> json]
                     ELSE AssignMember(json, Head(p), JObj(<< >>))
         IN IF made.err # "none" THEN made
            ELSE LET below == setValueByPath(made.json.members[Head(p)], Tail(p), value)
                 IN IF below.err # "none" THEN [err |-> below.err, json |-> json]
                    ELSE [err |-> "none",
                          json |-> JObj(Put(made.json.members, Head(p), below.json))]

ConfigFileTypes == {"CORE", "DYNAMICS"}
ConfigPaths == {<<".">>, <<"a">>, <<"b">>, <<"a", ".", "b">>, <<"a", ".", ".", "b">>,
                <<"b", ".", "a">>, <<".", "a">>}
ConfigValues == {JNum(1), JNum(2)}
default_value == JNum(0)

\* the document of a config type; configs_[type] of an absent type is a null json
ConfigOf(cfgs, type) == IF type \in DOMAIN cfgs THEN cfgs[type] ELSE JNull

ConfigRet(op, err, type, json_path, value) ==
    [Ret(op, err, "") EXCEPT !.type = type, !.arg = Str(json_path), !.value = value]

\* the process has not been brought down
ConfigRunning == ret.err # "crash"

\* what setValueByPath can do when the path has no component: path.size() - 1
\* wraps around and path[0] is read from an empty vector. The call brings the
\* process down, or returns with the document as it was or emptied
setValueByPathUndefined(json) ==
    {[err |-> "crash", json |-> json], [err |-> "none", json |-> json],
     [err |-> "none", json |-> JNull]}

\* ConfigManager::setConfigValue(type, json_path, value); no callback is registered
setConfigValue(type, json_path, value) ==
    LET path_components == parseJsonPath(json_path)
        outcomes == IF path_components = << >>
                    THEN setValueByPathUndefined(ConfigOf(configs_, type))
                    ELSE {setValueByPath(ConfigOf(configs_, type), path_components, value)}
    IN /\ ConfigRunning
       /\ \E o \in outcomes :
             /\ configs_' = Put(configs_, type, o.json)
             /\ ret' = ConfigRet("setConfigValue", o.err, type, json_path, value)
       /\ UNCHANGED <<coreVars, hdf5_, flow_, timing_>>

\* the value getConfigValue<double> returns
getConfigValueOf(cfgs, type, json_path, default) ==
    IF type \notin DOMAIN cfgs THEN default
    ELSE LET value == getValueByPath(cfgs[type], parseJsonPath(json_path))
         IN IF value.kind = "number" THEN value ELSE default

\* ConfigManager::getConfigValue<double>(type, json_path, default_value)
getConfigValue(type, json_path, default) ==
    /\ ConfigRunning
    /\ ret' = ConfigRet("getConfigValue", "none", type, json_path,
                        getConfigValueOf(configs_, type, json_path, default))
    /\ UNCHANGED <<coreVars, configs_, hdf5_, flow_, timing_>>

\* --------------------------------------------------------------- HDF5Writer
\* states_ is the length of the cached state list; extent is the number of rows
\* of the time dataset in the file; available is whether the build defines
\* HDF5_AVAILABLE; last is the latest call, its argument (the length of the list
\* passed) and the exception it raised
WriterCall(op, err, msg, arg) == [op |-> op, err |-> err, msg |-> msg, arg |-> arg]

\* HDF5Writer::HDF5Writer
HDF5WriterConstruct(available) ==
    /\ ~hdf5_.constructed
    /\ hdf5_' = [NoWriter EXCEPT !.constructed = TRUE, !.available = available,
                                 !.last = WriterCall("HDF5Writer", "none", "", 0)]
    /\ UNCHANGED <<coreVars, configs_, flow_, timing_, ret>>

\* variant: the empty list is not refused
HDF5WriterInitialize_AcceptsEmpty(states, io_ok) ==
    /\ hdf5_.constructed
    /\ hdf5_' =
          IF ~hdf5_.available
          THEN [hdf5_ EXCEPT !.last = WriterCall("initialize", "runtime_error",
                                                 "HDF5 library is not available", states)]
          ELSE IF hdf5_.initialized_
          THEN [hdf5_ EXCEPT !.last = WriterCall("initialize", "runtime_error",
                                                 "already initialized", states)]
          ELSE IF ~io_ok
          THEN [hdf5_ EXCEPT !.states_ = states,
                             !.last = WriterCall("initialize", "runtime_error",
                                                 "initialization failed", states)]
          ELSE [hdf5_ EXCEPT !.states_ = states, !.initialized_ = TRUE,
                             !.current_row_ = 0, !.extent = 0,
                             !.last = WriterCall("initialize", "none", "", states)]
    /\ UNCHANGED <<coreVars, configs_, flow_, timing_, ret>>

\* HDF5Writer::initialize with a list of the given length; io_ok is whether
\* the file and dataset operations of the library go through
HDF5WriterInitialize(states, io_ok) ==
    /\ hdf5_.constructed
    /\ hdf5_' =
          IF ~hdf5_.available
          THEN [hdf5_ EXCEPT !.last = WriterCall("initialize", "runtime_error",
                                                 "HDF5 library is not available", states)]
          ELSE IF hdf5_.initialized_
          THEN [hdf5_ EXCEPT !.last = WriterCall("initialize", "runtime_error",
                                                 "already initialized", states)]
          ELSE IF states = 0
          THEN [hdf5_ EXCEPT !.last = WriterCall("initialize", "runtime_error",
                                                 "empty states list", states)]
          ELSE IF ~io_ok
          THEN [hdf5_ EXCEPT !.states_ = states,
                             !.last = WriterCall("initialize", "runtime_error",
                                                 "initialization failed", states)]
          ELSE [hdf5_ EXCEPT !.states_ = states, !.initialized_ = TRUE,
                             !.current_row_ = 0, !.extent = 0,
                             !.last = WriterCall("initialize", "none", "", states)]
    /\ UNCHANGED <<coreVars, configs_, flow_, timing_, ret>>

\* HDF5Writer::writeDataPoint with the given number of values; a library
\* failure may come before or after the time dataset was extended
HDF5WriterWriteDataPoint(values, io_ok) ==
    /\ hdf5_.constructed
    /\ hdf5_.current_row_ < MaxRows
    /\ IF ~hdf5_.available
       THEN hdf5_' = [hdf5_ EXCEPT !.last = WriterCall("writeDataPoint", "runtime_error",
                                                       "HDF5 library is not available", values)]
       ELSE IF ~hdf5_.initialized_
       THEN hdf5_' = [hdf5_ EXCEPT !.last = WriterCall("writeDataPoint", "runtime_error",
                                                       "not initialized", values)]
       ELSE IF values # hdf5_.states_
       THEN hdf5_' = [hdf5_ EXCEPT !.last = WriterCall("writeDataPoint", "runtime_error",
                                                       "values count does not match", values)]
       ELSE IF ~io_ok
       THEN \E extent \in {hdf5_.extent, hdf5_.current_row_ + 1} :
               hdf5_' = [hdf5_ EXCEPT !.extent = extent,
                                      !.last = WriterCall("writeDataPoint", "runtime_error",
                                                          "write failed", values)]
       ELSE hdf5_' = [hdf5_ EXCEPT !.extent = hdf5_.current_row_ + 1,
                                   !.current_row_ = hdf5_.current_row_ + 1,
                                   !.last = WriterCall("writeDataPoint", "none", "", values)]
    /\ UNCHANGED <<coreVars, configs_, flow_, timing_, ret>>

\* HDF5Writer::finalize
HDF5WriterFinalize(io_ok) ==
    /\ hdf5_.constructed
    /\ hdf5_' =
          IF ~hdf5_.available \/ ~hdf5_.initialized_
          THEN [hdf5_ EXCEPT !.last = WriterCall("finalize", "none", "", 0)]
          ELSE IF ~io_ok
          THEN [hdf5_ EXCEPT !.last = WriterCall("finalize", "runtime_error",
                                                 "finalization failed", 0)]
          ELSE [hdf5_ EXCEPT !.initialized_ = FALSE,
                             !.last = WriterCall("finalize", "none", "", 0)]
    /\ UNCHANGED <<coreVars, configs_, flow_, timing_, ret>>

\* ----------------------------------------------------------- FlowController
\* FlowController::State: whether entry and exit actions are set
StateDef(has_actions) == [entry_action |-> has_actions, exit_action |-> has_actions]

\* FlowController::Transition as TransitionBuilder::build fills it. streak and
\* trues are not in the code: the number of updates, since the controller last
\* came into from_state from another state, in which the condition held without
\* interruption up to now, and in which it held at all (both stop at
\* required_cycles)
Transition(from_state, to_state, required_cycles, reset_on_false) ==
    [from_state |-> from_state, to_state |-> to_state,
     required_cycles |-> required_cycles, reset_on_false |-> reset_on_false,
     satisfied_cycles |-> 0, was_satisfied |-> FALSE, streak |-> 0, trues |-> 0]

Min(a, b) == IF a < b THEN a ELSE b

\* the controller f after its current state became what it is now, coming from
\* old_state: a change of state begins a new stay
NewStay(f, old_state) ==
    IF f.current_state_ = old_state THEN f
    ELSE [f EXCEPT !.transitions_ =
             [i \in DOMAIN f.transitions_ |->
                 [f.transitions_[i] EXCEPT !.streak = 0, !.trues = 0]]]

\* state_history_.push_back(record) followed by the erase of the oldest record
\* when the size exceeds max_history_size_
pushHistory(f, from_state, to_state, reason) ==
    LET h == Append(f.state_history_,
                    [from_state |-> from_state, to_state |-> to_state, reason |-> reason])
    IN IF Len(h) > f.max_history_size_ THEN Tail(h) ELSE h

\* states_[state]: an undefined state is inserted without actions
statesAt(f, state) ==
    IF state \in DOMAIN f.states_ THEN f.states_ ELSE Put(f.states_, state, StateDef(FALSE))

exitCalls(f, state) ==
    IF state \in DOMAIN f.states_ /\ f.states_[state].exit_action
    THEN <<[action |-> "exit", state |-> state]>> ELSE << >>

entryCalls(f, state) ==
    IF state \in DOMAIN f.states_ /\ f.states_[state].entry_action
    THEN <<[action |-> "entry", state |-> state]>> ELSE << >>

\* FlowController::forceTransition(state)
forceTransition(f, state) ==
    IF state \notin DOMAIN f.states_
    THEN [f EXCEPT !.last = FlowCall("forceTransition", state, FALSE)]
    ELSE NewStay([f EXCEPT !.previous_state_ = f.current_state_,
                           !.current_state_ = state,
                           !.state_changed_ = TRUE,
                           !.state_history_ = pushHistory(f, f.current_state_, state,
                                                          "Forced transition"),
                           !.last = [FlowCall("forceTransition", state, TRUE) EXCEPT
                                        !.actions = exitCalls(f, f.current_state_)
                                                    \o entryCalls(f, state)]],
                 f.current_state_)

\* the transitions triggerEvent(event_name) accepts, by position in transitions_
eventMatches(f, event_name) ==
    {i \in DOMAIN f.transitions_ :
        /\ f.transitions_[i].from_state = f.current_state_
        /\ event_name \in DOMAIN f.event_transitions_
        /\ f.current_state_ \in DOMAIN f.event_transitions_[event_name]
        /\ f.event_transitions_[event_name][f.current_state_] = f.transitions_[i].to_state}

\* FlowController::triggerEvent(event_name); the transitions carry no action
triggerEvent(f, event_name) ==
    IF eventMatches(f, event_name) = {}
    THEN [f EXCEPT !.last = FlowCall("triggerEvent", event_name, FALSE)]
    ELSE LET i == CHOOSE i \in eventMatches(f, event_name) :
                      \A j \in eventMatches(f, event_name) : i <= j
             to_state == f.transitions_[i].to_state
             g == [f EXCEPT !.states_ = statesAt(f, f.current_state_)]
             h == [g EXCEPT !.states_ = statesAt(g, to_state)]
         IN NewStay([h EXCEPT !.previous_state_ = f.current_state_,
                              !.current_state_ = to_state,
                              !.state_changed_ = TRUE,
                              !.state_history_ = pushHistory(f, f.current_state_, to_state,
                                                             "Event: " \o event_name),
                              !.last = [FlowCall("triggerEvent", event_name, TRUE) EXCEPT
                                           !.actions = exitCalls(g, f.current_state_)
                                                       \o entryCalls(h, to_state)]],
                    f.current_state_)

\* FlowController::reset
flowReset(f) ==
    NewStay([f EXCEPT !.previous_state_ = f.current_state_,
                      !.current_state_ = f.initial_state_,
                      !.state_changed_ = TRUE,
                      !.state_history_ = << >>,
                      !.last = [FlowCall("reset", "", TRUE) EXCEPT
                                   !.actions = (IF f.current_state_ # f.initial_state_
                                                THEN exitCalls(f, f.current_state_) ELSE << >>)
                                               \o entryCalls(f, f.initial_state_)]],
            f.current_state_)

\* FlowController::validateStatesAndTransitions: the states it adds
undefinedStates(f) ==
    ({f.transitions_[i].from_state : i \in DOMAIN f.transitions_}
       \cup {f.transitions_[i].to_state : i \in DOMAIN f.transitions_}
       \cup UNION {DOMAIN f.event_transitions_[e] \cup
                   {f.event_transitions_[e][s] : s \in DOMAIN f.event_transitions_[e]}
                   : e \in DOMAIN f.event_transitions_}
       \cup {f.initial_state_}) \ DOMAIN f.states_

\* FlowController::initialize; acts is the list of action calls made so far
flowInitialize(f, acts) ==
    [f EXCEPT !.states_ = [s \in DOMAIN f.states_ \cup undefinedStates(f) |->
                              IF s \in DOMAIN f.states_ THEN f.states_[s] ELSE StateDef(FALSE)],
              !.isInitialized_ = TRUE,
              !.last = [f.last EXCEPT !.actions = acts \o entryCalls(f, f.initial_state_)]]

\* variant: the counters are left as they are after an executed transition
executeTransition_KeepsCounters(f, i) ==
    LET t == f.transitions_[i]
    IN NewStay([f EXCEPT !.previous_state_ = f.current_state_,
                         !.current_state_ = t.to_state,
                         !.state_changed_ = TRUE,
                         !.state_history_ = pushHistory(f, f.current_state_, t.to_state,
                                                        "Condition met"),
                         !.last = [f.last EXCEPT !.fired = i,
                                      !.actions = f.last.actions
                                                  \o exitCalls(f, f.current_state_)
                                                  \o entryCalls(f, t.to_state)]],
                f.current_state_)

\* FlowController::executeTransition of the transition at position i, followed
\* by the reset of every counter that updateImpl does after it
executeTransition(f, i) ==
    LET t == f.transitions_[i]
    IN NewStay([f EXCEPT !.previous_state_ = f.current_state_,
                         !.current_state_ = t.to_state,
                         !.state_changed_ = TRUE,
                         !.state_history_ = pushHistory(f, f.current_state_, t.to_state,
                                                        "Condition met"),
                         !.transitions_ = [j \in DOMAIN f.transitions_ |->
                                              [f.transitions_[j] EXCEPT !.satisfied_cycles = 0,
                                                                        !.was_satisfied = FALSE]],
                         !.last = [f.last EXCEPT !.fired = i,
                                      !.actions = f.last.actions
                                                  \o exitCalls(f, f.current_state_)
                                                  \o entryCalls(f, t.to_state)]],
                f.current_state_)

\* what the counters satisfied_cycles and was_satisfied of transition t become
\* when its condition is found true
countSatisfied(t) ==
    [t EXCEPT !.satisfied_cycles = (IF t.was_satisfied THEN t.satisfied_cycles ELSE 0) + 1,
              !.was_satisfied = TRUE,
              !.streak = Min(t.streak + 1, t.required_cycles),
              !.trues = Min(t.trues + 1, t.required_cycles)]

\* what they become when the condition is found false
countUnsatisfied(t) ==
    [t EXCEPT !.was_satisfied = FALSE,
              !.satisfied_cycles = IF t.reset_on_false THEN 0 ELSE t.satisfied_cycles,
              !.streak = 0]

\* the sustain test of updateImpl (required_seconds is left at 0)
can_transition(t) ==
    IF t.required_cycles > 0 THEN t.satisfied_cycles >= t.required_cycles ELSE TRUE

\* the loop of updateImpl over transitions_ from position i; condition[i] is
\* what the condition of transition i returns if it is called
RECURSIVE transitionLoop(_, _, _)
transitionLoop(f, i, condition) ==
    IF i > Len(f.transitions_) THEN f
    ELSE IF f.transitions_[i].from_state # f.current_state_
    THEN transitionLoop(f, i + 1, condition)
    ELSE LET seen == [f EXCEPT !.last = [f.last EXCEPT
                                            !.evaluated = Append(f.last.evaluated, i),
                                            !.conds = Append(f.last.conds, condition[i])]]
         IN IF condition[i]
            THEN LET g == [seen EXCEPT !.transitions_[i] = countSatisfied(f.transitions_[i])]
                 IN IF can_transition(g.transitions_[i])
                    THEN executeTransition(g, i)
                    ELSE transitionLoop(g, i + 1, condition)
            ELSE transitionLoop([seen EXCEPT !.transitions_[i] =
                                                countUnsatisfied(f.transitions_[i])],
                                i + 1, condition)

\* FlowController::updateImpl; time_in_state_ and delta_time are left out
updateImpl(f, condition) ==
    LET called == [f EXCEPT !.last = FlowCall("update", f.current_state_, TRUE)]
        ready == IF f.isInitialized_ THEN called ELSE flowInitialize(called, << >>)
    IN transitionLoop([ready EXCEPT !.state_changed_ = FALSE], 1, condition)

\* ------------------------------------------------------------ specifications
DepChoices == {req \in SUBSET Ids : Cardinality(req) <= MaxDeps}

\* registration of a component that is new to the registry and well formed
Register ==
    \E c \in Ids \ components_, req \in DepChoices, priority \in Priorities :
        registerComponent(c, req, "ok", priority)

Next ==
    \/ Register
    \/ validateAndSortComponents
    \/ updateAll

Spec == Init /\ [][Next]_vars

\* the whole life of a manager, from construction to destruction; components
\* declare at most one required input
SingleDepChoices == {req \in SUBSET Ids : Cardinality(req) <= 1}

LifeRegister ==
    /\ Alive
    /\ \E c \in Ids \ components_, req \in SingleDepChoices, priority \in Priorities :
          registerComponent(c, req, "ok", priority)

LifeValidateAndSort == Alive /\ validateAndSortComponents

LifeUpdateAll == Alive /\ updateAll

NextLife ==
    \/ LifeRegister
    \/ LifeValidateAndSort
    \/ LifeUpdateAll
    \/ destructor

SpecLife == Init /\ [][NextLife]_vars

\* registration attempts of every kind: a null component, an id already in the
\* registry, each kind of interface; two components of the same name on
\* different vehicles
RegIds == {A1, A2}

RegisterAny ==
    \E c \in RegIds \cup {NullComponent}, req \in SUBSET RegIds,
       kind \in InterfaceKinds, priority \in Priorities :
        /\ Cardinality(req) <= 1
        /\ registerComponent(c, req, kind, priority)

NextReg ==
    \/ RegisterAny
    \/ validateAndSortComponents

SpecReg == Init /\ [][NextReg]_vars

\* steps over components that read their required inputs without catching; an
\* input may be declared with a type other than its source output's
UncaughtKinds == {"ok", "wrongType"}

UncaughtRegister ==
    \E c \in Ids \ components_, req \in SingleDepChoices,
       kind \in UncaughtKinds, priority \in Priorities :
        registerComponent(c, req, kind, priority)

NextUncaught ==
    \/ UncaughtRegister
    \/ updateAllUncaught

SpecUncaught == Init /\ [][NextUncaught]_vars

\* one component reading by path: the path under study and the plain name of
\* its own output, before and after its registration and between its writes
PathCaller == B1
OwnPath == <<"y">>

InitPath == InitManager /\ path \in Paths

RegisterCaller ==
    /\ PathCaller \notin components_
    /\ registerComponent(PathCaller, {}, "ok", DEFAULT_PRIORITY)

SetCallerOutput ==
    \E v \in Values :
        componentSetState(PathCaller, OutputSpec(PathCaller).name, OutputSpec(PathCaller).type, v)

GetPath == \E T \in Types : componentGet(PathCaller, path, T)

GetOwnPath == \E T \in Types : componentGet(PathCaller, OwnPath, T)

NextPath ==
    \/ RegisterCaller
    \/ SetCallerOutput
    \/ GetPath
    \/ GetOwnPath

SpecPath == InitPath /\ [][NextPath]_vars

\* ------------------------------------------------------------ TimingManager
\* TimingManagerComponent::initialize. read tells how the lookup of core.timing
\* went: "found" (both values read, a missing key giving its default),
\* "missing" (core.timing absent, or the lookup threw before any assignment)
\* and "partial" (duration_s read, then time_step_s threw)
timingInitialize(t, read, duration_s, time_step_s) ==
    LET u == [t EXCEPT !.duration_s_ = IF read = "missing" THEN @ ELSE duration_s,
                       !.time_step_s_ = IF read = "found" THEN time_step_s ELSE @]
    IN [u EXCEPT !.out = [timing_current_s |-> u.current_time_s_,
                          timing_delta_s |-> u.time_step_s_,
                          timing_frame_count |-> u.frame_count_,
                          timing_should_run |-> u.should_run_]]

\* variant: the run flag is cleared only once the time has passed duration_s_
timingUpdateImpl_StrictlyAfter(t) ==
    LET now == t.current_time_s_ + t.time_step_s_
        u == [t EXCEPT !.frame_count_ = @ + 1,
                       !.current_time_s_ = now,
                       !.should_run_ = IF now > t.duration_s_ THEN FALSE ELSE @,
                       !.updates = @ + 1,
                       !.reached = @ \/ now >= t.duration_s_]
    IN [u EXCEPT !.out = [timing_current_s |-> u.current_time_s_,
                          timing_frame_count |-> u.frame_count_,
                          timing_should_run |-> u.should_run_] @@ t.out]

\* TimingManagerComponent::updateImpl
timingUpdateImpl(t) ==
    LET now == t.current_time_s_ + t.time_step_s_
        u == [t EXCEPT !.frame_count_ = @ + 1,
                       !.current_time_s_ = now,
                       !.should_run_ = IF now >= t.duration_s_ THEN FALSE ELSE @,
                       !.updates = @ + 1,
                       !.reached = @ \/ now >= t.duration_s_]
    IN [u EXCEPT !.out = [timing_current_s |-> u.current_time_s_,
                          timing_frame_count |-> u.frame_count_,
                          timing_should_run |-> u.should_run_] @@ t.out]

\* the values core.timing can hold
Durations == 0..MaxDuration \cup {default_duration_s}
TimeSteps == -1..MaxTimeStep

TimingInitialize ==
    \E read \in {"found", "missing", "partial"}, duration_s \in Durations,
       time_step_s \in TimeSteps :
        /\ timing_' = timingInitialize(timing_, read, duration_s, time_step_s)
        /\ UNCHANGED <<coreVars, configs_, hdf5_, flow_, ret>>

TimingUpdate ==
    /\ timing_.frame_count_ < MaxFrames
    /\ timing_' = timingUpdateImpl(timing_)
    /\ UNCHANGED <<coreVars, configs_, hdf5_, flow_, ret>>

NextTiming ==
    \/ TimingInitialize
    \/ TimingUpdate

SpecTiming == Init /\ [][NextTiming]_vars

\* one FlowController set up the way the initFlowController functions of the
\* repository do, then driven by updates, forced transitions, events and resets
FlowStates == {"S", "T", "U"}
FlowEvents == {"e"}
EventConfigs == {("e" :> ("S" :> "T")), ("e" :> ("T" :> "S")),
                 ("e" :> ("S" :> "U" @@ "T" :> "S"))}
HistorySize == 1

initFlowController(n, reset_on_false, events) ==
    /\ flow_.transitions_ = << >>
    /\ ~flow_.isInitialized_
    /\ flow_' = [flow_ EXCEPT
                    !.states_ = [s \in FlowStates |-> StateDef(TRUE)],
                    !.transitions_ = <<Transition("S", "T", n, reset_on_false),
                                       Transition("S", "U", 0, TRUE),
                                       Transition("T", "U", 0, TRUE)>>,
                    !.event_transitions_ = events,
                    !.max_history_size_ = HistorySize,
                    !.last = FlowCall("initFlowController", "", TRUE)]
    /\ UNCHANGED <<coreVars, configs_, hdf5_, timing_, ret>>

FlowConfigure ==
    \E n \in 0..MaxCycles, reset_on_false \in BOOLEAN, events \in EventConfigs :
        initFlowController(n, reset_on_false, events)

FlowUpdate ==
    \E condition \in [1..3 -> BOOLEAN] :
        /\ flow_' = updateImpl(flow_, condition)
        /\ UNCHANGED <<coreVars, configs_, hdf5_, timing_, ret>>

FlowForceTransition ==
    \E state \in FlowStates \cup {"X"} :
        /\ flow_' = forceTransition(flow_, state)
        /\ UNCHANGED <<coreVars, configs_, hdf5_, timing_, ret>>

FlowTriggerEvent ==
    \E event_name \in FlowEvents \cup {"x"} :
        /\ flow_' = triggerEvent(flow_, event_name)
        /\ UNCHANGED <<coreVars, configs_, hdf5_, timing_, ret>>

FlowReset ==
    /\ flow_' = flowReset(flow_)
    /\ UNCHANGED <<coreVars, configs_, hdf5_, timing_, ret>>

NextFlow ==
    \/ FlowConfigure
    \/ FlowUpdate
    \/ FlowForceTransition
    \/ FlowTriggerEvent
    \/ FlowReset

SpecFlow == Init /\ [][NextFlow]_vars

\* one HDF5Writer driven through any sequence of its calls, in either build
StateListLengths == 0..MaxStates

WriterConstruct == \E available \in BOOLEAN : HDF5WriterConstruct(available)

WriterInitialize ==
    \E states \in StateListLengths, io_ok \in BOOLEAN : HDF5WriterInitialize(states, io_ok)

WriterWriteDataPoint ==
    \E values \in StateListLengths, io_ok \in BOOLEAN : HDF5WriterWriteDataPoint(values, io_ok)

WriterFinalize == \E io_ok \in BOOLEAN : HDF5WriterFinalize(io_ok)

NextWriter ==
    \/ WriterConstruct
    \/ WriterInitialize
    \/ WriterWriteDataPoint
    \/ WriterFinalize

SpecWriter == Init /\ [][NextWriter]_vars

\* a ConfigManager whose values are set and read by path
SetConfigValue ==
    \E type \in ConfigFileTypes, json_path \in ConfigPaths, value \in ConfigValues :
        setConfigValue(type, json_path, value)

GetConfigValue ==
    \E type \in ConfigFileTypes, json_path \in ConfigPaths :
        getConfigValue(type, json_path, default_value)

NextConfig ==
    \/ SetConfigValue
    \/ GetConfigValue

SpecConfig == Init /\ [][NextConfig]_vars

\* the store driven directly: components without required inputs are registered
\* and then read and write cells (A2 stays unregistered, so its ids have no cell)
StoreIds == {A1, B1}

RegisterPlain ==
    \E c \in StoreIds \ components_ : registerComponent(c, {}, "ok", DEFAULT_PRIORITY)

SetOwn ==
    \E c \in Ids, name \in StateNames, T \in Types, v \in Values :
        componentSetState(c, name, T, v)

SetThroughHandle ==
    \E c \in Ids, id \in StateIds, T \in Types, v \in Values :
        handleSetState(c, id, T, v)

Get ==
    \E c \in Ids, id \in StateIds, T \in Types :
        componentGetState(c, id, T)

NextStore ==
    \/ RegisterPlain
    \/ SetOwn
    \/ SetThroughHandle
    \/ Get

SpecStore == Init /\ [][NextStore]_vars

TypeOK ==
    /\ components_ \subseteq Ids
    /\ DOMAIN states_ = {StateId(c, OutputSpec(c).name) : c \in components_}
    /\ DOMAIN componentDependencies_ = components_
    /\ DOMAIN componentPriorities_ = components_
    /\ needsRevalidation_ \in BOOLEAN
    /\ stepCount \in 0..MaxSteps

\* ------------------------------------------------------- graph vocabulary
Pos(c) == PosIn(executionOrder_, c)

DepsOf(c) == IF c \in DOMAIN componentDependencies_ THEN componentDependencies_[c] ELSE {}

RECURSIVE Closure(_, _)
Closure(S, n) ==
    IF n = 0 THEN S ELSE Closure(S \cup UNION {DepsOf(x) : x \in S}, n - 1)

\* the components c requires, directly or through others
ReachFrom(c) == Closure(DepsOf(c), Cardinality(Ids))

OnCycle(c) == c \in components_ /\ c \in ReachFrom(c)
AllDepsRegistered == \A c \in components_ : DepsOf(c) \subseteq components_
Acyclic == \A c \in components_ : ~OnCycle(c)
ScheduleCall == ret.op \in {"validateAndSortComponents", "updateAll"}

\* ------------------------------------------------------------------ claims
\* C1: when every required dependency is registered and the graph has no cycle,
\* the schedule computation succeeds and the execution order holds every
\* registered component once, each after all the components it requires,
\* whatever the priorities.
C1_DagSortedDependenciesFirst ==
    (ScheduleCall /\ AllDepsRegistered /\ Acyclic) =>
        /\ ret.err = "none"
        /\ Len(executionOrder_) = Cardinality(components_)
        /\ SeqToSet(executionOrder_) = components_
        /\ \A a \in components_ : \A b \in DepsOf(a) : Pos(b) < Pos(a)

\* C1 witness: three components sorted, one requiring a component of lower priority
C1_Witness ==
    /\ ret.op = "validateAndSortComponents" /\ ret.err = "none"
    /\ components_ = Ids
    /\ \E a \in components_ : \E b \in DepsOf(a) :
          /\ componentPriorities_[a] > componentPriorities_[b]
          /\ Pos(b) < Pos(a)

\* C2: in a successful updateAll step, a component reading the output of a
\* component placed before it sees the value written in this step; reading the
\* output of a component placed after it, it sees the value of the previous
\* step, or the declared default (an empty cell if none) when that component
\* has not been updated yet.
C2_StepVisibility ==
    [][(ret'.op = "updateAll" /\ ret'.err = "none") =>
        \A c \in components_ : \A p \in components_ \ {c} :
            LET T == OutputSpec(p).type
                dflt == OutputSpec(p).default_value
            IN IF PosIn(executionOrder_', p) < PosIn(executionOrder_', c)
               THEN observed'[c][p] = [msg |-> "ok", value |-> MakeAny(T, stepCount')]
               ELSE IF lastUpd[p] > 0
               THEN observed'[c][p] = [msg |-> "ok", value |-> MakeAny(T, stepCount)]
               ELSE IF dflt # EmptyAny
               THEN observed'[c][p] = [msg |-> "ok", value |-> dflt]
               ELSE observed'[c][p].msg = "not initialized"]_vars

\* C2 witness: in the second step a component sees this step's value of a
\* predecessor and the first step's value of a successor
C2_Witness ==
    /\ ret.op = "updateAll" /\ ret.err = "none" /\ stepCount = 2
    /\ \E c \in components_ : \E p \in components_ : \E q \in components_ :
          /\ Pos(p) < Pos(c) /\ Pos(c) < Pos(q)
          /\ observed[c][p].value.val = 2
          /\ observed[c][q].value.val = 1

\* C3: when the registered graph has a cycle (a self-requirement included),
\* the schedule computation raises DependencyError and its message lists every
\* component on a cycle.
C3_CycleNamesAllParticipants ==
    (ScheduleCall /\ \E c \in components_ : OnCycle(c)) =>
        /\ ret.err = "DependencyError"
        /\ \A c \in components_ : OnCycle(c) => c \in ret.names

\* C3 witness: a DependencyError for a cycle through all three components
C3_Witness ==
    /\ ScheduleCall /\ ret.err = "DependencyError"
    /\ \A c \in Ids : OnCycle(c) /\ Cardinality(DepsOf(c)) = 1

\* C4: each position of a computed execution order holds a component whose
\* requirements were all placed earlier, of the highest priority among such
\* components, and of the smallest name among those of that priority.
C4_PriorityThenNameAmongEligible ==
    ~needsRevalidation_ =>
        \A i \in 1..Len(executionOrder_) :
            LET placed == {executionOrder_[j] : j \in 1..(i - 1)}
                eligible == {c \in components_ \ placed : DepsOf(c) \subseteq placed}
                chosen == executionOrder_[i]
            IN /\ chosen \in eligible
               /\ \A e \in eligible :
                    /\ componentPriorities_[chosen] >= componentPriorities_[e]
                    /\ componentPriorities_[chosen] = componentPriorities_[e]
                          => NameRank(chosen.name) <= NameRank(e.name)

\* C4 witness: two components without a dependency path between them, the one
\* of higher priority and greater name placed first
C4_Witness ==
    /\ ~needsRevalidation_
    /\ \E a \in components_ : \E b \in components_ :
          /\ a \notin ReachFrom(b) /\ b \notin ReachFrom(a)
          /\ componentPriorities_[a] > componentPriorities_[b]
          /\ NameRank(a.name) > NameRank(b.name)
          /\ Pos(a) < Pos(b)

NeverSet(id) == id \in DOMAIN lastSet /\ lastSet[id] = EmptyAny
SetCall == ret.op \in {"setState", "handleSetState"}

\* C5: getState<T>(id) returns the value of the latest successful
\* setState<T>(id, v), whatever was set on other ids since.
C5_SetThenGetRoundTrip ==
    (/\ ret.op = "getState"
     /\ ret.id \in DOMAIN lastSet
     /\ lastSet[ret.id] # EmptyAny
     /\ ret.type = lastSet[ret.id].type)
    => (ret.err = "none" /\ ret.value = lastSet[ret.id])

\* C5 witness: a value set on one cell is read back after another cell was set
C5_Witness ==
    /\ ret.op = "getState" /\ ret.err = "none"
    /\ ret.id = StateId(A1, "x") /\ ret.value = MakeAny("int", 1)
    /\ StateId(B1, "y") \in DOMAIN lastSet /\ lastSet[StateId(B1, "y")] # EmptyAny

\* C6: getState<T2> on a cell holding a value of another type T1 raises
\* StateAccessError, yields no value and leaves the store as it was.
C6_TypeMismatchRaises ==
    [][(/\ ret'.op = "getState"
        /\ ret'.id \in DOMAIN states_
        /\ states_[ret'.id].type \notin {"void", ret'.type})
       => (/\ ret'.err = "StateAccessError"
           /\ ret'.value = EmptyAny
           /\ states_' = states_)]_vars

\* C6 witness: a read that failed with a type mismatch
C6_Witness ==
    /\ ret.op = "getState" /\ ret.err = "StateAccessError" /\ ret.msg = "type mismatch"
    /\ states_[ret.id].type = "int" /\ ret.type = "dbl"

\* C7: getState raises StateAccessError for an id without a cell and for a
\* cell declared without default that was never set; absent, never written
\* and type mismatch carry different messages; a cell declared with a default
\* yields that default before its first set.
C7_ReadFailuresAndDefault ==
    ret.op = "getState" =>
        /\ ret.id \notin DOMAIN states_
              => (ret.err = "StateAccessError" /\ ret.msg = "not found")
        /\ (NeverSet(ret.id) /\ OutputSpec(ret.id.component).default_value = EmptyAny)
              => (ret.err = "StateAccessError" /\ ret.msg = "not initialized")
        /\ (NeverSet(ret.id) /\ OutputSpec(ret.id.component).default_value # EmptyAny
                /\ ret.type = OutputSpec(ret.id.component).type)
              => (ret.err = "none" /\ ret.value = OutputSpec(ret.id.component).default_value)
        /\ (ret.id \in DOMAIN states_ /\ states_[ret.id].type \notin {"void", ret.type})
              => (ret.err = "StateAccessError" /\ ret.msg = "type mismatch")

\* C7 witness: the declared default read from a cell that was never set
C7_Witness ==
    /\ ret.op = "getState" /\ ret.err = "none"
    /\ ret.id = StateId(B1, "y") /\ NeverSet(ret.id)
    /\ ret.value = MakeAny("dbl", 0)

\* C8: setState on an id without a cell raises StateAccessError and leaves the
\* store (its cells and their contents) as it was; setState on a declared
\* output puts the value in that cell and changes no other cell.
C8_SetUndeclaredRejected ==
    [][(ret'.op \in {"setState", "handleSetState"}) =>
        IF ret'.id \notin DOMAIN states_
        THEN ret'.err = "StateAccessError" /\ states_' = states_
        ELSE /\ ret'.err = "none"
             /\ DOMAIN states_' = DOMAIN states_
             /\ states_'[ret'.id] = ret'.value
             /\ \A other \in DOMAIN states_ \ {ret'.id} : states_'[other] = states_[other]]_vars

\* C8 witness: a rejected write to an undeclared id while declared cells exist
C8_Witness ==
    /\ SetCall /\ ret.err = "StateAccessError"
    /\ ret.id \notin DOMAIN states_
    /\ \E id \in DOMAIN states_ : lastSet[id] # EmptyAny

\* C9: every cell was last written by the component that declared it (or not
\* written at all).
C9_CellsWrittenOnlyByOwner ==
    \A id \in DOMAIN writer : writer[id] \in {NullComponent, id.component}

\* C10: initialize() is invoked at most once on each component.
C10_InitializeAtMostOnce ==
    \A c \in Ids : initCount[c] <= 1

\* the lifecycle calls of the latest call, and those of one kind
Calls == ret.calls
CallsOf(call) == SelectSeq(Calls, LAMBDA e : e.call = call)
CallIds(call) == [i \in 1..Len(CallsOf(call)) |-> CallsOf(call)[i].id]

\* C11: no update() is invoked on a component before its initialize() has
\* returned, and within one schedule computation the initialize() calls are made
\* in execution order, every component after all the components it requires.
C11_InitializeBeforeUpdate ==
    /\ \A c \in Ids : lastUpd[c] > 0 => initCount[c] > 0
    /\ \A j \in 1..Len(Calls) :
          Calls[j].call = "update" =>
              \/ initCount[Calls[j].id] > CountIn(CallIds("initialize"), Calls[j].id)
              \/ \E i \in 1..(j - 1) : Calls[i] = Call("initialize", Calls[j].id)
    /\ (ScheduleCall /\ CallsOf("initialize") # << >>) =>
          /\ CallIds("initialize") = executionOrder_
          /\ \A j \in 1..Len(Calls) :
                Calls[j].call = "initialize" =>
                    \A b \in DepsOf(Calls[j].id) :
                        \E i \in 1..(j - 1) : Calls[i] = Call("initialize", b)

\* C11 witness: a second step that re-sorted three components, one of them
\* requiring another, initialized all three and then updated all three
C11_Witness ==
    /\ ret.op = "updateAll" /\ ret.err = "none" /\ stepCount = 2
    /\ components_ = Ids
    /\ \E a \in Ids : DepsOf(a) # {}
    /\ Len(CallsOf("initialize")) = 3 /\ Len(CallsOf("update")) = 3

\* C12: a schedule computation that ends in an error (DependencyError of the
\* sort, ConfigurationError of a validation) has invoked initialize() on no
\* component.
C12_FailedComputationInitializesNothing ==
    [][(ret'.op \in {"validateAndSortComponents", "updateAll"} /\ ret'.err # "none") =>
          /\ initCount' = initCount
          /\ \A i \in 1..Len(ret'.calls) : ret'.calls[i].call # "initialize"]_vars

\* C12 witness: a computation failed after an earlier one had succeeded, with a
\* registered component still waiting for its first initialize()
C12_Witness ==
    /\ ScheduleCall /\ ret.err \in {"DependencyError", "ConfigurationError"}
    /\ \E c \in components_ : initCount[c] > 0
    /\ \E c \in components_ : initCount[c] = 0

\* C13: a successful updateAll has invoked update() exactly once on every
\* registered component, those registered since the previous step included, one
\* call after the other in the order of the execution order.
C13_UpdateAllOncePerComponentInOrder ==
    (ret.op = "updateAll" /\ ret.err = "none") =>
        /\ CallIds("update") = executionOrder_
        /\ SeqToSet(CallIds("update")) = components_
        /\ \A c \in components_ : CountIn(CallIds("update"), c) = 1
        /\ \A c \in components_ : lastUpd[c] = stepCount

\* C13 witness: the second step updates three components, one of which was
\* registered after the first step
C13_Witness ==
    /\ ret.op = "updateAll" /\ ret.err = "none" /\ stepCount = 2
    /\ components_ = Ids
    /\ \E c \in Ids : initCount[c] = 1
    /\ \E c \in Ids : initCount[c] = 2
    /\ \A c \in Ids : lastUpd[c] = 2

\* the components the destructor released
Released == SeqToSet(CallIds("release"))

\* C14: the destructor calls finalize() along the exact reverse of the last
\* computed execution order, so a component is finalized before every component
\* of that order it requires, and every finalize() call precedes every release.
C14_FinalizeInReverseOrderBeforeRelease ==
    [][(Alive /\ ret'.op = "~StateManager") =>
          LET calls == ret'.calls
              n == Len(executionOrder_)
              finPos(c) == CHOOSE i \in 1..Len(calls) : calls[i] = Call("finalize", c)
          IN /\ \A i \in 1..n : calls[i] = Call("finalize", executionOrder_[n + 1 - i])
             /\ \A i \in (n + 1)..Len(calls) : calls[i].call = "release"
             /\ \A a \in SeqToSet(executionOrder_) :
                   \A b \in DepsOf(a) \cap SeqToSet(executionOrder_) :
                       finPos(a) < finPos(b)]_vars

\* C14 witness: three sorted components were finalized and released, one of
\* them placed after a component of lower priority, which it therefore requires
C14_Witness ==
    /\ ret.op = "~StateManager"
    /\ Len(executionOrder_) = 3
    /\ Len(CallsOf("finalize")) = 3 /\ Len(CallsOf("release")) = 3
    /\ componentPriorities_[executionOrder_[1]] < componentPriorities_[executionOrder_[3]]

C16_DuplicateIdRejected ==
    [][\A c \in Ids :
          (ret'.op = "registerComponent" /\ ret'.names = {c}) =>
              IF c \in components_
              THEN /\ ret'.err = "ConfigurationError" /\ ret'.msg = "already registered"
                   /\ UNCHANGED <<components_, stateSpecs_, states_, componentDependencies_,
                                  componentPriorities_, executionOrder_, needsRevalidation_>>
              ELSE /\ ret'.msg # "already registered"
                   /\ ret'.arg = "ok" => (ret'.err = "none" /\ c \in components_')]_vars

\* C16 witness: with both vehicles' component A registered, one of them with a
\* dependency and a priority of its own, a further registration of one of the
\* two ids was rejected
C16_Witness ==
    /\ ret.op = "registerComponent" /\ ret.err = "ConfigurationError"
    /\ ret.msg = "already registered"
    /\ components_ = {A1, A2}
    /\ \E c \in ret.names : DepsOf(c) # {} /\ componentPriorities_[c] # DEFAULT_PRIORITY

\* C17: a registration is rejected with ConfigurationError when the interface
\* declares a name twice or a required input without source, and succeeds when
\* the interface is well formed, component-level dependencies declared with
\* declareInput(ComponentId) included.
C17_InterfaceValidation ==
    (ret.op = "registerComponent" /\ ret.names # {} /\ ret.msg # "already registered") =>
        /\ ret.arg \in {"duplicateName", "requiredNoSource"} => ret.err = "ConfigurationError"
        /\ ret.arg \in {"ok", "componentLevel"} => ret.err = "none"

\* C18: when a registered component requires an unregistered one, the schedule
\* computation fails with one ConfigurationError that names every dependent
\* component together with the component it misses.
C18_MissingDependencyReported ==
    (ScheduleCall /\ ~AllDepsRegistered /\ Acyclic) =>
        /\ ret.err = "ConfigurationError"
        /\ \A p \in validateComponentDependencies : {p[1], p[2]} \subseteq ret.names

\* a registered component has an input whose source component is registered and
\* either declares no output of the source's name or declares it with another type
ConnectionViolation ==
    \E c \in components_ : \E i \in stateSpecs_[c] :
        /\ i.source # NoStateId
        /\ i.source.component \in components_
        /\ \A o \in getOutputs(i.source.component) :
               o.name # i.source.name \/ o.type # i.type

\* C19: a schedule computation raises ConfigurationError whenever some input
\* names a source output that its source component does not declare or declares
\* with a type other than the input's.
C19_ConnectionValidation ==
    (ScheduleCall /\ AllDepsRegistered /\ Acyclic /\ ConnectionViolation) =>
        ret.err = "ConfigurationError"

\* the dependency edges whose dependent has the strictly higher priority
HigherPriorityEdges ==
    {e \in components_ \X components_ :
        e[2] \in DepsOf(e[1]) /\ componentPriorities_[e[1]] > componentPriorities_[e[2]]}

\* C20: a schedule computation over a complete acyclic graph succeeds whatever
\* the priorities, places every dependency before its dependent, and logs a
\* priority conflict for exactly the edges whose dependent has the strictly
\* higher priority.
C20_PriorityConflictsLoggedNotRaised ==
    [][(ret'.op \in {"validateAndSortComponents", "updateAll"} /\ needsRevalidation_
        /\ AllDepsRegistered /\ Acyclic) =>
          /\ ret'.err = "none"
          /\ ret'.conflicts = HigherPriorityEdges
          /\ \A e \in HigherPriorityEdges :
                PosIn(executionOrder_', e[2]) < PosIn(executionOrder_', e[1])]_vars

\* C20 witness: a computation logged a conflict while another edge, between
\* components of equal priority, went unreported
C20_Witness ==
    /\ ScheduleCall /\ ret.err = "none"
    /\ ret.conflicts # {}
    /\ \E a \in components_ : \E b \in DepsOf(a) :
           componentPriorities_[a] = componentPriorities_[b] /\ <<a, b>> \notin ret.conflicts

\* a registration was made since the last successful schedule computation
RegisteredSinceSort == SeqToSet(executionOrder_) # components_

\* C21: the execution order changes only in a schedule computation that follows
\* a registration; an updateAll or validateAndSortComponents call made when no
\* component was registered since the last successful computation leaves the
\* execution order as it is and invokes no initialize().
C21_ResortOnlyAfterRegistration ==
    [][/\ executionOrder_' # executionOrder_ =>
            (ret'.op \in {"validateAndSortComponents", "updateAll"} /\ RegisteredSinceSort)
       /\ (ret'.op \in {"validateAndSortComponents", "updateAll"} /\ ~RegisteredSinceSort) =>
            /\ executionOrder_' = executionOrder_
            /\ initCount' = initCount
            /\ \A i \in 1..Len(ret'.calls) : ret'.calls[i].call # "initialize"]_vars

\* C21 witness: a second step over three components, among them two of equal
\* priority and name, that were sorted and initialized once, before the first step
C21_Witness ==
    /\ ret.op = "updateAll" /\ ret.err = "none" /\ stepCount = 2
    /\ components_ = Ids
    /\ componentPriorities_[A1] = componentPriorities_[A2]
    /\ \A c \in Ids : initCount[c] = 1
    /\ CallsOf("initialize") = << >>

\* C22: only required inputs add dependency edges; when every input of every
\* registered component is optional, the schedule call raises no error, also
\* when components name each other or an unregistered component as source, and
\* the order is the one priority and name give.
C22_OptionalInputsAddNoEdge ==
    /\ \A c \in components_ :
          DepsOf(c) = {i.source.component :
                          i \in {x \in stateSpecs_[c] : x.required /\ x.source # NoStateId}}
    /\ (ScheduleCall /\ \A c \in components_ : \A i \in stateSpecs_[c] : ~i.required) =>
          /\ ret.err = "none"
          /\ SeqToSet(executionOrder_) = components_
          /\ \A i, j \in 1..Len(executionOrder_) :
                i < j => ~priorityComparator(executionOrder_[i], executionOrder_[j])

\* C22 witness: two components of different priority that name each other, and
\* an unregistered component, as sources of optional inputs only were sorted
C22_Witness ==
    /\ ScheduleCall /\ ret.err = "none"
    /\ components_ = {A1, B1} /\ executionOrder_ = <<B1, A1>>
    /\ \A c \in components_ : \A i \in stateSpecs_[c] : ~i.required
    /\ \E i \in stateSpecs_[A1] : i.source.component = B1
    /\ \E i \in stateSpecs_[B1] : i.source.component = A1
    /\ \E i \in stateSpecs_[A1] : i.source.component = A2

\* C23: the execution order is a function of the registered components with
\* their priorities and dependencies: every manager that holds the registry of
\* this one computes the order this one computed, whatever the order in which
\* the components were registered.
C23_OrderDeterminedByRegistry ==
    (ScheduleCall /\ ret.err = "none") =>
        \A s \in performPriorityAwareTopologicalSort(dependencyGraph) :
            s.sorted_order = executionOrder_

\* the output StateIds declared by the registered components
DeclaredOutputIds == UNION {{StateId(c, o.name) : o \in getOutputs(c)} : c \in components_}

\* the default the declaring component gave to output id
DeclaredDefault(id) ==
    (CHOOSE o \in getOutputs(id.component) : o.name = id.name).default_value

\* C24: the store holds one cell for each output declared by a registered
\* component and no other cell; a cell nobody has set holds the declared default
\* or is empty.
C24_CellsAreDeclaredOutputs ==
    /\ DOMAIN states_ = DeclaredOutputIds
    /\ \A id \in DOMAIN states_ : NeverSet(id) => states_[id] = DeclaredDefault(id)

\* C24 witness: after a set on one cell and a rejected set on an id without
\* cell, the cell without default of another component is still empty
C24_Witness ==
    /\ SetCall /\ ret.err = "StateAccessError" /\ ret.id \notin DOMAIN states_
    /\ components_ = {A1, B1}
    /\ lastSet[StateId(B1, "y")] # EmptyAny
    /\ NeverSet(StateId(A1, "x")) /\ states_[StateId(A1, "x")] = EmptyAny

\* C25: while some registered component lies on a dependency cycle, every
\* updateAll raises DependencyError and invokes update() on no component, also
\* after steps that ran on an order computed before the cycle was closed.
C25_CycleIsFatalForEveryStep ==
    [][/\ \A c \in components_ : OnCycle(c) => (c \in components_' /\ OnCycle(c)')
       /\ ((\E c \in components_ : OnCycle(c)) /\ ret'.op = "updateAll") =>
            /\ ret'.err = "DependencyError"
            /\ \A i \in 1..Len(ret'.calls) : ret'.calls[i].call # "update"
            /\ UNCHANGED <<lastUpd, states_, executionOrder_>>]_vars

\* C25 witness: an updateAll failed on a cycle after an earlier step had
\* updated a component
C25_Witness ==
    /\ ret.op = "updateAll" /\ ret.err = "DependencyError"
    /\ stepCount > 0
    /\ \E c \in components_ : OnCycle(c) /\ lastUpd[c] = 0
    /\ \E c \in components_ : lastUpd[c] > 0

\* C26: the registerComponent call that registers the second of two components
\* which require each other raises DependencyError naming both.
C26_MutualDependencyRejectedAtRegistration ==
    \A c \in Ids :
        (/\ ret.op = "registerComponent" /\ ret.names = {c} /\ ret.msg # "already registered"
         /\ \E d \in components_ \ {c} : d \in DepsOf(c) /\ c \in DepsOf(d))
        => ret.err = "DependencyError"

\* component c declares a required input with a type other than the type of
\* the output it names as source, so that its read raises StateAccessError
ReadRaises(c) ==
    \E i \in stateSpecs_[c] :
        i.required /\ i.type # OutputSpec(i.source.component).type

\* the cell of the output of component c
OwnCell(c) == StateId(c, OutputSpec(c).name)

\* C27: when the update() of the component at position k raises an error it
\* does not catch, updateAll passes the error on to its caller, has invoked
\* update() on the components up to position k and on none after it, and the
\* cells written before position k keep the values of this step while the
\* other cells are as they were; without a raising component every component
\* is updated.
C27_UpdateErrorPropagates ==
    [][(ret'.op = "updateAll" /\ ret'.err \notin {"DependencyError", "ConfigurationError"}) =>
          LET order == executionOrder_'
              upd == SelectSeq(ret'.calls, LAMBDA e : e.call = "update")
              raising == {i \in 1..Len(order) : ReadRaises(order[i])}
              k == CHOOSE i \in raising : \A j \in raising : i <= j
          IN IF raising = {}
             THEN /\ ret'.err = "none"
                  /\ Len(upd) = Len(order)
                  /\ \A i \in 1..Len(order) : upd[i].id = order[i]
             ELSE /\ ret'.err = "StateAccessError"
                  /\ Len(upd) = k
                  /\ \A i \in 1..k : upd[i].id = order[i]
                  /\ \A i \in 1..(k - 1) :
                        states_'[OwnCell(order[i])] =
                            MakeAny(OutputSpec(order[i]).type, stepCount')
                  /\ \A i \in k..Len(order) :
                        states_'[OwnCell(order[i])] = states_[OwnCell(order[i])]]_vars

\* C27 witness: the second of three components raised in a step; the first had
\* written its cell and the third was never updated
C27_Witness ==
    /\ ret.op = "updateAll" /\ ret.err = "StateAccessError"
    /\ Len(executionOrder_) = 3
    /\ Len(CallsOf("update")) = 2
    /\ states_[OwnCell(executionOrder_[1])] =
           MakeAny(OutputSpec(executionOrder_[1]).type, stepCount)
    /\ lastUpd[executionOrder_[3]] = 0

\* the StateIds the queries are asked about
QueriedIds == StateIds \cup {NoStateId, StateId(A1, ""), StateId(NullComponent, "x")}

\* C28: the introspection queries agree with registry and store:
\* getAllComponentIds is the set of registered ids; every id listed by
\* getComponentOutputStates of a registered component has its declared,
\* non-empty type from getStateType and a value from getRawStateValue;
\* getAllOutputStates is the union of the per-component lists; for every other
\* id getRawStateValue raises StateAccessError and getStateType yields "".
C28_IntrospectionConsistent ==
    /\ getAllComponentIds = DOMAIN componentPriorities_
    /\ \A c \in components_ :
          /\ getComponentOutputStates(c) # {}
          /\ \A id \in getComponentOutputStates(c) :
                /\ getStateType(id) = OutputSpec(c).type /\ getStateType(id) # ""
                /\ getRawStateValue(id).err = "none"
                /\ id \in DOMAIN lastSet /\ lastSet[id] # EmptyAny
                       => getRawStateValue(id).value = lastSet[id]
    /\ getAllOutputStates = UNION {getComponentOutputStates(c) : c \in getAllComponentIds}
    /\ \A c \in Ids \ components_ : getComponentOutputStates(c) = {}
    /\ \A id \in QueriedIds \ getAllOutputStates :
          /\ getRawStateValue(id).err = "StateAccessError"
          /\ getStateType(id) = ""

\* C28 witness: two components registered and a third of the same name as one
\* of them not; a cell holds a value that was set, another is still empty
C28_Witness ==
    /\ getAllComponentIds = {A1, B1}
    /\ getRawStateValue(StateId(B1, "y")).value = MakeAny("dbl", 1)
    /\ getRawStateValue(StateId(A1, "x")) = [err |-> "none", msg |-> "", value |-> EmptyAny]
    /\ getStateType(StateId(A1, "x")) = "int" /\ getStateType(StateId(A2, "x")) = ""
    /\ ret.op = "getState"


\* ---------------------------------------------------------------- C29
\* the three forms of a path, read off the string: what precedes the first
\* dot, what lies between the first two dots, and the rest
RECURSIVE Before(_)
Before(p) == IF p = << >> \/ Head(p) = "." THEN << >> ELSE <<Head(p)>> \o Before(Tail(p))

RECURSIVE After(_)
After(p) == IF p = << >> THEN << >> ELSE IF Head(p) = "." THEN Tail(p) ELSE After(Tail(p))

HasDot(p) == \E i \in DOMAIN p : p[i] = "."

Segments(p) ==
    IF ~HasDot(p) THEN <<p>>
    ELSE IF ~HasDot(After(p)) THEN <<Before(p), After(p)>>
    ELSE <<Before(p), Before(After(p)), After(After(p))>>

EmptySegment(p) == \E i \in DOMAIN Segments(p) : Segments(p)[i] = << >>

AllDigits(s) == s # << >> /\ \A i \in DOMAIN s : IsDigit(s[i])

\* no segment is empty and the vehicle segment, if any, is a decimal number
WellFormed(p) ==
    /\ ~EmptySegment(p)
    /\ Len(Segments(p)) = 3 => AllDigits(Segments(p)[1])

\* the StateId the path names for the component c
Resolved(c, p) ==
    LET s == Segments(p)
    IN CASE Len(s) = 1 -> StateId(c, Str(s[1]))
         [] Len(s) = 2 -> StateId([vehicleId |-> c.vehicleId, name |-> Str(s[1])], Str(s[2]))
         [] Len(s) = 3 -> StateId([vehicleId |-> Decimal(s[1]), name |-> Str(s[2])], Str(s[3]))

PathsRead == {path, OwnPath}

\* the latest call was get<T>(p) made by the registered caller
LastGet(p) == ret.op = "get" /\ ret.arg = Str(p) /\ PathCaller \in components_

\* the outcome of the latest call is that of getState<T>(id)
SameAsGetState(id) ==
    LET r == getState(states_, id, ret.type)
    IN ret.id = id /\ ret.err = r.err /\ ret.msg = r.msg /\ ret.value = r.value

\* the outcome of the latest call is that of parsing p anew and reading
SameAsReparsed(p) ==
    LET parsed == parsePath(PathCaller, p)
    IN IF parsed.err # "none"
       THEN ret.err = parsed.err /\ ret.msg = parsed.msg /\ ret.id = NoStateId
       ELSE SameAsGetState(parsed.id)

UnmetDependencies(graph, c) ==
    LET s == CHOOSE s \in performPriorityAwareTopologicalSort(graph) : TRUE
    IN {d \in graph[c] : PosIn(s.sorted_order, d) = 0}

\* the dependency graphs the registered components could have
GraphsOver(S) == [S -> SUBSET S]

\* C30: the DependencyError of a failed ordering carries, for every component
\* that could not be ordered, the set of its unmet dependencies: whatever
\* graph raises the same error leaves the same dependencies unmet, so the
\* cycle can be read off the error alone (every dependency being registered)
C30_ErrorCarriesUnmetDependencies ==
    (ScheduleCall /\ ret.err = "DependencyError" /\ AllDepsRegistered) =>
        \A graph \in GraphsOver(components_) :
            (\E s \in performPriorityAwareTopologicalSort(graph) :
                 s.err = ret.err /\ s.names = ret.names)
            => \A c \in ret.names :
                   UnmetDependencies(graph, c) = UnmetDependencies(dependencyGraph, c)

\* ---------------------------------------------------------------- C31
\* C31: the type of the value held in each non-empty cell is the type tag
\* declared for that output (what getStateType returns); a setState of a value
\* of another type is rejected and leaves the cell as it was
C31_CellTypeIsDeclaredType ==
    /\ \A id \in DOMAIN states_ :
          states_[id].type # "void" => states_[id].type = getStateType(id)
    /\ (/\ ret.op \in {"setState", "handleSetState"}
        /\ ret.id \in DOMAIN states_
        /\ ret.type # getStateType(ret.id)) => ret.err # "none"

\* ---------------------------------------------------------------- C38
\* C38: a registerComponent call that raises (the id is already registered, or
\* the interface fails validation) leaves the manager as it was: registry,
\* cells, dependency entries, priorities, store access, dirty flag and
\* execution order
C38_FailedRegistrationChangesNothing ==
    [][(ret'.op = "registerComponent" /\ ret'.err # "none") =>
           /\ ret'.err = "ConfigurationError"
           /\ UNCHANGED <<components_, states_, componentDependencies_, componentPriorities_,
                          stateSpecs_, needsRevalidation_, executionOrder_, initCount>>]_vars

\* C38 witness: a registration was rejected while a computed schedule was in
\* force and the dirty flag was clear
C38_Witness ==
    /\ ret.op = "registerComponent"
    /\ ret.err = "ConfigurationError"
    /\ ret.msg = "interface validation failed"
    /\ ~needsRevalidation_
    /\ executionOrder_ # << >>
    /\ \E c \in ret.names : c \notin components_

\* ---------------------------------------------------------------- C32
\* one component sequence begins the other
IsPrefix(a, b) == Len(a) <= Len(b) /\ SubSeq(b, 1, Len(a)) = a
Related(p, q) == IsPrefix(parseJsonPath(p), parseJsonPath(q)) \/ IsPrefix(parseJsonPath(q), parseJsonPath(p))

\* C32: after setConfigValue(type, p, v) with a non-empty dotted path p,
\* getConfigValue(type, p, default) returns v and not the default, and the
\* values at the paths that are neither prefixes nor extensions of p, and
\* those of the other config types, are as before
C32_ConfigRoundTrip ==
    [][ret'.op = "setConfigValue" =>
          \A type \in ConfigFileTypes, p \in ConfigPaths :
              (ret'.type = type /\ ret'.arg = Str(p)) =>
                  /\ getConfigValueOf(configs_', type, p, default_value) = ret'.value
                  /\ \A q \in ConfigPaths :
                        ~Related(p, q) =>
                            getValueByPath(ConfigOf(configs_', type), parseJsonPath(q))
                              = getValueByPath(ConfigOf(configs_, type), parseJsonPath(q))
                  /\ \A other \in ConfigFileTypes \ {type} :
                        ConfigOf(configs_', other) = ConfigOf(configs_, other)]_vars

\* ---------------------------------------------------------------- C33
\* the call a step of the writer makes, and whether it raised
WriterStep(op) == hdf5_'.last.op = op
WriterRaises == hdf5_'.last.err = "runtime_error"
WriterRowsKept ==
    hdf5_'.current_row_ = hdf5_.current_row_ /\ hdf5_'.extent = hdf5_.extent

\* the parts of C33 that concern writeDataPoint and a repeated initialize:
\* a write to a writer that is not initialized raises and records no row; a
\* write whose value count differs from the state count raises and does not
\* advance the row counter; initialize on an initialized writer raises
WriterRefusals ==
    /\ (WriterStep("writeDataPoint") /\ ~hdf5_.initialized_) =>
           WriterRaises /\ WriterRowsKept
    /\ (WriterStep("writeDataPoint") /\ hdf5_'.last.arg # hdf5_.states_) =>
           WriterRaises /\ hdf5_'.current_row_ = hdf5_.current_row_
    /\ (WriterStep("initialize") /\ hdf5_.initialized_) => WriterRaises

\* C33: over any sequence of initialize, writeDataPoint and finalize calls,
\* writeDataPoint raises runtime_error and records no row unless the writer is
\* initialized, which it is after a successful initialize and before finalize;
\* initialize with an empty state list raises and leaves the writer
\* uninitialized; initialize on an initialized writer raises; a writeDataPoint
\* with the wrong number of values raises without advancing the row counter
C33_WriterErrorHandling ==
    [][/\ WriterRefusals
       /\ (WriterStep("initialize") /\ hdf5_'.last.arg = 0) =>
              WriterRaises /\ ~hdf5_'.initialized_
       /\ hdf5_'.initialized_ <=>
              \/ WriterStep("initialize") /\ ~WriterRaises
              \/ hdf5_.initialized_ /\ ~WriterStep("finalize")]_vars

\* C33 as the code has it: initialize with an empty list raises and leaves the
\* writer as it was, so an initialized writer stays initialized with its state
\* list and rows; and the writer is initialized after a successful initialize
\* until a finalize that returns normally (a finalize that raises leaves it
\* initialized)
C33_WriterErrorHandlingKeepsState ==
    [][/\ WriterRefusals
       /\ (WriterStep("initialize") /\ hdf5_'.last.arg = 0) =>
              /\ WriterRaises
              /\ hdf5_'.initialized_ = hdf5_.initialized_
              /\ hdf5_'.states_ = hdf5_.states_
              /\ WriterRowsKept
       /\ hdf5_'.initialized_ <=>
              \/ WriterStep("initialize") /\ ~WriterRaises
              \/ hdf5_.initialized_ /\ ~(WriterStep("finalize") /\ ~WriterRaises)]_vars

\* C33 witness: an initialize with an empty list was refused by a writer that
\* is initialized and has written rows
C33_Witness ==
    /\ hdf5_.last.op = "initialize"
    /\ hdf5_.last.arg = 0
    /\ hdf5_.last.err = "runtime_error"
    /\ hdf5_.initialized_
    /\ hdf5_.current_row_ > 0

\* ---------------------------------------------------- FlowController claims
\* a step made by the FlowController call op
FlowStep(op) == flow_' # flow_ /\ flow_'.last.op = op

\* the transitions with sustainedFor(n), n > 0, and the given resetOnFalse
Sustained(reset_on_false) ==
    {i \in DOMAIN flow_.transitions_ :
        /\ flow_.transitions_[i].required_cycles > 0
        /\ flow_.transitions_[i].reset_on_false = reset_on_false}

\* C34: a transition with sustainedFor(n), n > 0, and resetOnFalse(true) fires
\* only in an update at which its condition was true in each of the n most
\* recent updates of the current stay in its source state, whatever calls of
\* forceTransition, triggerEvent and reset came in between
C34_SustainedWithinStay ==
    [][\A i \in Sustained(TRUE) :
          (FlowStep("update") /\ flow_'.last.fired = i)
              => flow_.transitions_[i].streak + 1 >= flow_.transitions_[i].required_cycles]_vars

\* C35: with sustainedFor(n) and resetOnFalse(false) the count is kept across
\* updates in which the condition is false, and the transition fires in the
\* update in which the condition is true for the n-th time, consecutive or
\* not, during the stay in the source state
C35_CountKeptAcrossInterruption ==
    [][\A i \in Sustained(FALSE) :
          (/\ FlowStep("update")
           /\ \E k \in DOMAIN flow_'.last.evaluated :
                  flow_'.last.evaluated[k] = i /\ flow_'.last.conds[k]
           /\ flow_.transitions_[i].trues + 1 >= flow_.transitions_[i].required_cycles)
              => flow_'.last.fired = i]_vars

\* addEventTransition(event_name, current_state_, t) was registered
EventRegistered(f, event_name) ==
    /\ event_name \in DOMAIN f.event_transitions_
    /\ f.current_state_ \in DOMAIN f.event_transitions_[event_name]

\* C36: triggerEvent(e) in state s with addEventTransition(e, s, t) registered
\* moves to t, runs the exit action of s then the entry action of t and
\* returns true; in every other case it returns false and leaves the current
\* state, the previous state and the history as they were
C36_TriggerEventFollowsEventMap ==
    [][FlowStep("triggerEvent") =>
          IF EventRegistered(flow_, flow_'.last.arg)
          THEN LET t == flow_.event_transitions_[flow_'.last.arg][flow_.current_state_]
               IN /\ flow_'.last.result
                  /\ flow_'.current_state_ = t
                  /\ flow_'.last.actions = exitCalls(flow_, flow_.current_state_)
                                           \o entryCalls(flow_, t)
          ELSE /\ ~flow_'.last.result
               /\ flow_'.current_state_ = flow_.current_state_
               /\ flow_'.previous_state_ = flow_.previous_state_
               /\ flow_'.state_history_ = flow_.state_history_]_vars

\* the sustain requirement of transition t is met once its condition is found
\* true in this update
SustainMet(t) ==
    \/ t.required_cycles = 0
    \/ (IF t.was_satisfied THEN t.satisfied_cycles ELSE 0) + 1 >= t.required_cycles

\* the transitions leaving the current state, in insertion order, whose
\* condition was evaluated in the update that made flow_' from flow_
Leaving == {i \in DOMAIN flow_.transitions_ :
               flow_.transitions_[i].from_state = flow_.current_state_}

\* C37: an update changes the current state at most once: it executes the
\* first transition in insertion order, among those leaving the current state,
\* whose condition and sustain requirement are met; it evaluates no transition
\* leaving the state just entered; and after an executed transition the
\* sustain counters of all transitions are zero
C37_UpdateFiresFirstMetTransitionOnce ==
    [][FlowStep("update") =>
          LET l == flow_'.last
              evaluated == {l.evaluated[k] : k \in DOMAIN l.evaluated}
              Met(k) == l.conds[k] /\ SustainMet(flow_.transitions_[l.evaluated[k]])
          IN /\ evaluated \subseteq Leaving
             /\ \A k \in DOMAIN l.evaluated : k < Len(l.evaluated) => ~Met(k)
             /\ IF l.fired = 0
                THEN /\ evaluated = Leaving
                     /\ \A k \in DOMAIN l.evaluated : ~Met(k)
                     /\ flow_'.current_state_ = flow_.current_state_
                     /\ flow_'.state_history_ = flow_.state_history_
                ELSE /\ l.evaluated # << >>
                     /\ l.fired = l.evaluated[Len(l.evaluated)]
                     /\ Met(Len(l.evaluated))
                     /\ evaluated = {i \in Leaving : i <= l.fired}
                     /\ flow_'.current_state_ = flow_.transitions_[l.fired].to_state
                     /\ flow_'.previous_state_ = flow_.current_state_
                     /\ flow_'.state_history_ =
                            pushHistory(flow_, flow_.current_state_,
                                        flow_'.current_state_, "Condition met")
                     /\ \A j \in DOMAIN flow_'.transitions_ :
                            /\ flow_'.transitions_[j].satisfied_cycles = 0
                            /\ ~flow_'.transitions_[j].was_satisfied]_vars

\* an update executed the second transition leaving the state after it found
\* the condition of the first one true but not yet sustained for two cycles
C37_Witness ==
    /\ flow_.last.op = "update"
    /\ flow_.last.fired = 2
    /\ flow_.last.conds = <<TRUE, TRUE>>
    /\ flow_.current_state_ = "U"
    /\ flow_.previous_state_ = "S"
    /\ flow_.transitions_[1].required_cycles = 2

\* ---------------------------------------------------- TimingManager claims
\* the step is a call of TimingManagerComponent::updateImpl
TimingUpdated == timing_'.updates = timing_.updates + 1

\* the published state name, once the component has published it
Published(t, name) == name \in DOMAIN t.out

\* C39: timing_should_run is true until the first update at which the
\* accumulated time is at least the duration, false from that update on and
\* never true again; timing_frame_count is the number of updates performed;
\* and with a positive time step every update that leaves the flag true
\* brings the accumulated time strictly closer to the duration, so that a loop
\* stepping while the flag is true terminates
C39_RunFlagMonotoneAndClears ==
    [][/\ Published(timing_', "timing_should_run")
           => timing_'.out.timing_should_run = ~timing_'.reached
       /\ (Published(timing_, "timing_should_run") /\ ~timing_.out.timing_should_run)
           => ~timing_'.out.timing_should_run
       /\ Published(timing_', "timing_frame_count")
           => timing_'.out.timing_frame_count = timing_'.updates
       /\ TimingUpdated =>
              /\ Published(timing_', "timing_should_run")
              /\ Published(timing_', "timing_frame_count")
              /\ (timing_.time_step_s_ > 0 /\ timing_'.out.timing_should_run) =>
                     /\ timing_'.duration_s_ - timing_'.out.timing_current_s > 0
                     /\ timing_'.duration_s_ - timing_'.out.timing_current_s
                            < timing_.duration_s_ - timing_.current_time_s_]_vars

\* the third update of a run configured with duration 3 and time step 1 has
\* cleared the flag
C39_Witness ==
    /\ timing_.updates = 3
    /\ timing_.duration_s_ = 3
    /\ timing_.time_step_s_ = 1
    /\ Published(timing_, "timing_should_run")
    /\ ~timing_.out.timing_should_run
    /\ timing_.out.timing_current_s = 3
    /\ timing_.out.timing_frame_count = 3

====
